---- MODULE Spec2Model ----
(***************************************************************************)
(* Identity / dedup engine of the finance tracker (finance-app/src/db.py),  *)
(* the upload loop that feeds it (finance-app/src/ui/upload.py) and the    *)
(* statement parsers (finance-app/src/parsers.py), and the AI autopilot    *)
(* (finance-app/src/ai.py, finance-app/src/ui/data_editor.py).             *)
(*                                                                         *)
(* Strings are sequences of one-character strings, so that formatting,     *)
(* normalisation and concatenation are computed and not assumed.           *)
(* Amounts are integers in thousandths of the currency unit (1000 = 1.00). *)
(* Dates are day ordinals of January 2025; DateIso renders them.           *)
(***************************************************************************)
EXTENDS Integers, Sequences, FiniteSets, TLC

VARIABLES
    MOCK_MODE,   \* db.MOCK_MODE, fixed when the module is imported
    mock_db,     \* MOCK_MODE: whether the file mock_db.json is there; else FALSE
    store,       \* the documents of the 'transactions' collection / of mock_db.json
    order,       \* MOCK_MODE: the _ids of mock_db.json in file order; else <<>>
    range_cache, \* st.cache_data of get_transactions_by_range: (start, end) -> list
    last,        \* the last db call: its name, its argument and what it returned
    in1, in2,    \* two arguments of the pure function under study
    h1, h2,      \* what the function returned for them
    doc,         \* the parsed transactions of the document being imported
    pos,         \* index in doc of the next transaction of the running pass
    pass,        \* 1 or 2: which import of the document is running; 3 when both are done
    statuses,    \* statuses[p]: the statuses add_transaction returned during pass p
    rows,            \* the rows of the sheet _parse_isracard is reading
    idx,             \* the index in rows of the row the loop reads next
    current_section, \* _parse_isracard: "SEARCH", "PENDING" or "VALID"
    col_indices,     \* _parse_isracard: the column of each field, {} before a header
    emitted,         \* _parse_isracard: the transactions appended so far
    upload,          \* render_upload: st.session_state and the transactions handed to the import
    calls,           \* the add_transaction calls in progress and the writes they made
    autopilot        \* render_data_editor: the locals of the autopilot loop

vars == <<MOCK_MODE, mock_db, store, order, range_cache, last, in1, in2, h1, h2, doc, pos, pass, statuses,
          rows, idx, current_section, col_indices, emitted, upload, calls, autopilot>>

-----------------------------------------------------------------------------
(* Bounds *)

\* Longest description drawn as an argument of generate_hash_id.
MaxDescLen == 2

\* Longest description a case/whitespace variant is derived from, and the
\* longest variant.
MaxBaseLen == 3
MaxVariantLen == 5

\* Most transactions in one imported document.
MaxDoc == 3

-----------------------------------------------------------------------------
(* Python values *)

\* None, for the fields held as atomic strings.
None == "None"

\* None, for the fields held as character sequences (ref_id).
NoneSeq == <<"None">>

\* bool(v) of a str-or-None field.
Truthy(v) == v # None /\ v # ""

\* bool(v) of a character sequence or None.
TruthySeq(v) == v # NoneSeq /\ v # <<>>

Abs(n) == IF n < 0 THEN -n ELSE n

-----------------------------------------------------------------------------
(* normalize_description *)

Whitespace == {" "}

\* str.lower() on one character of the alphabet.
LowerChar(c) == IF c = "A" THEN "a" ELSE IF c = "B" THEN "b" ELSE c

lower(s) == [i \in 1..Len(s) |-> LowerChar(s[i])]

RECURSIVE lstrip(_)
lstrip(s) ==
    IF s # <<>> /\ Head(s) \in Whitespace THEN lstrip(Tail(s)) ELSE s

RECURSIVE rstrip(_)
rstrip(s) ==
    IF s # <<>> /\ s[Len(s)] \in Whitespace
    THEN rstrip(SubSeq(s, 1, Len(s) - 1))
    ELSE s

strip(s) == rstrip(lstrip(s))

\* re.sub(r'\s+', ' ', s): every maximal whitespace run becomes one space.
RECURSIVE sub_spaces(_)
sub_spaces(s) ==
    IF s = <<>> THEN <<>>
    ELSE IF Head(s) \in Whitespace
         THEN <<" ">> \o sub_spaces(lstrip(s))
         ELSE <<Head(s)>> \o sub_spaces(Tail(s))

\* A normalisation that forgets to lower-case.
normalize_description_nolower(description) == sub_spaces(strip(description))

normalize_description(description) == sub_spaces(strip(lower(description)))

-----------------------------------------------------------------------------
(* generate_hash_id *)

Digit(n) == <<"0", "1", "2", "3", "4", "5", "6", "7", "8", "9">>[n + 1]

RECURSIVE Decimal(_)
Decimal(n) == IF n < 10 THEN <<Digit(n)>> ELSE Decimal(n \div 10) \o <<Digit(n % 10)>>

\* |amount| rounded to hundredths. The model draws no amount whose third
\* decimal is 5, where the binary float decides the direction.
Cents(amount) == (Abs(amount) + 5) \div 10

\* A formatting that drops the sign, as verify.py's test_dedup_hash expects.
Format2fAbs(amount) ==
    Decimal(Cents(amount) \div 100)
        \o <<".">>
        \o <<Digit((Cents(amount) % 100) \div 10), Digit(Cents(amount) % 10)>>

\* f"{float(amount):.2f}" : sign, integer part, point, two decimals.
Format2f(amount) ==
    (IF amount < 0 THEN <<"-">> ELSE <<>>)
        \o Decimal(Cents(amount) \div 100)
        \o <<".">>
        \o <<Digit((Cents(amount) % 100) \div 10), Digit(Cents(amount) % 10)>>

\* The tx['date'] string of a day ordinal: YYYY-MM-DD.
DateIso(day) ==
    <<"2", "0", "2", "5", "-", "0", "1", "-">> \o (IF day < 10 THEN <<"0">> ELSE <<>>) \o Decimal(day)

\* hashlib.sha256(raw).hexdigest(), taken as collision-free: the digest
\* stands for the string digested.
sha256(raw_string) == [digest_of |-> raw_string]

\* The digested string without the amount's sign (the formula before the
\* "preserving sign" update of db.py line 46).
raw_string_abs(date_iso, amount, description, ref_id) ==
    IF TruthySeq(ref_id)
    THEN date_iso \o <<"_">> \o Format2fAbs(amount) \o <<"_">>
             \o normalize_description(description) \o <<"_">> \o ref_id
    ELSE date_iso \o <<"_">> \o Format2fAbs(amount) \o <<"_">>
             \o normalize_description(description)

\* The string generate_hash_id digests.
raw_string(date_iso, amount, description, ref_id) ==
    IF TruthySeq(ref_id)
    THEN date_iso \o <<"_">> \o Format2f(amount) \o <<"_">>
             \o normalize_description(description) \o <<"_">> \o ref_id
    ELSE date_iso \o <<"_">> \o Format2f(amount) \o <<"_">>
             \o normalize_description(description)

generate_hash_id(date_iso, amount, description, ref_id) ==
    sha256(raw_string(date_iso, amount, description, ref_id))

-----------------------------------------------------------------------------
(* Arguments of generate_hash_id *)

Alphabet == {"a", "A", " ", "_"}

Seqs(S, n) == UNION {[1..k -> S] : k \in 0..n}

HashDays == {1, 2}

\* -1.00, +1.00 and -0.004, which formats as "-0.00".
HashAmounts == {-1000, 1000, -4}

HashRefs == {NoneSeq, <<"a">>}

HashArgs ==
    [date : HashDays, amount : HashAmounts,
     description : Seqs(Alphabet, MaxDescLen), ref_id : HashRefs]

NoArgs == [date |-> 0, amount |-> 0, description |-> <<>>, ref_id |-> NoneSeq]

NoHash == sha256(<<>>)

HashOf(args) ==
    generate_hash_id(DateIso(args.date), args.amount, args.description, args.ref_id)

-----------------------------------------------------------------------------
(* The store: variables the hash specification leaves alone *)

ParseVars == <<rows, idx, current_section, col_indices, emitted>>

StoreVarsOnly == <<MOCK_MODE, mock_db, store, order, range_cache, last, doc, pos, pass, statuses>>

\* The variables of the flows built on the store.
FlowVars == <<upload, calls, autopilot>>

\* The flow variables the upload flow leaves alone.
NotUpload == <<calls, autopilot>>

\* The flow variables the calls in progress leave alone.
NotCalls == <<upload, autopilot>>

\* The flow variables the autopilot leaves alone.
NotAutopilot == <<upload, calls>>

StoreVars == <<StoreVarsOnly, ParseVars, FlowVars>>

HashVars == <<in1, in2, h1, h2>>

\* No sheet is being read.
ParseIdle ==
    /\ rows = <<>>
    /\ idx = 0
    /\ current_section = "SEARCH"
    /\ col_indices = {}
    /\ emitted = <<>>

\* st.session_state before a file is dropped, with the position i of the
\* duplicate check in the parsed transactions and the list handed to the import.
NoUpload ==
    [upload_phase |-> "idle", parsed_transactions |-> <<>>, i |-> 0,
     exact_duplicates |-> <<>>, near_duplicates |-> <<>>, truly_new |-> <<>>,
     to_import |-> <<>>]

\* No call of add_transaction is between its read and its write.
NoCalls == [of |-> <<>>, log |-> <<>>]

\* The autopilot button has not been pressed.
NoAutopilot ==
    [phase |-> "idle", total_uncategorized |-> 0, current_pending |-> 0,
     processed_total |-> 0, error |-> None]

FlowIdle == upload = NoUpload /\ calls = NoCalls /\ autopilot = NoAutopilot

StoreIdle ==
    /\ MOCK_MODE = FALSE
    /\ mock_db = FALSE
    /\ store = {}
    /\ order = <<>>
    /\ range_cache = <<>>
    /\ last = [op |-> "none"]
    /\ doc = <<>>
    /\ pos = 0
    /\ pass = 0
    /\ statuses = <<>>

HashIdle ==
    /\ in1 = NoArgs
    /\ in2 = NoArgs
    /\ h1 = NoHash
    /\ h2 = NoHash

-----------------------------------------------------------------------------
(* Specification of generate_hash_id on two argument tuples *)

InitHash ==
    /\ in1 \in HashArgs
    /\ in2 \in HashArgs
    /\ h1 = NoHash
    /\ h2 = NoHash
    /\ StoreIdle
    /\ ParseIdle
    /\ FlowIdle

ComputeHashes ==
    /\ h1 = NoHash
    /\ h1' = HashOf(in1)
    /\ h2' = HashOf(in2)
    /\ UNCHANGED <<in1, in2, StoreVars>>

NextHash == ComputeHashes

SpecHash == InitHash /\ [][NextHash]_vars

Hashed == h1 # NoHash

-----------------------------------------------------------------------------
(* Specification of generate_hash_id on a description and its variants in  *)
(* letter case and whitespace                                              *)

BaseArgs ==
    [date : HashDays, amount : HashAmounts,
     description : Seqs(Alphabet, MaxBaseLen), ref_id : HashRefs]

InitNorm ==
    /\ in1 \in BaseArgs
    /\ in2 = in1
    /\ h1 = NoHash
    /\ h2 = NoHash
    /\ StoreIdle
    /\ ParseIdle
    /\ FlowIdle

\* The description with the case of its i-th letter changed.
OtherCase(c) == IF c = "a" THEN "A" ELSE IF c = "A" THEN "a" ELSE c

ChangeCase ==
    /\ h1 = NoHash
    /\ \E i \in 1..Len(in2.description) :
           /\ OtherCase(in2.description[i]) # in2.description[i]
           /\ in2' = [in2 EXCEPT !.description[i] = OtherCase(@)]
    /\ UNCHANGED <<in1, h1, h2, StoreVars>>

InsertAt(s, i, c) == SubSeq(s, 1, i - 1) \o <<c>> \o SubSeq(s, i, Len(s))

\* One more whitespace character in front of the description or behind it.
PadEnds ==
    /\ h1 = NoHash
    /\ Len(in2.description) < MaxVariantLen
    /\ \E c \in Whitespace, i \in {1, Len(in2.description) + 1} :
           in2' = [in2 EXCEPT !.description = InsertAt(@, i, c)]
    /\ UNCHANGED <<in1, h1, h2, StoreVars>>

\* One more whitespace character in a whitespace run between two words.
WidenRun ==
    /\ h1 = NoHash
    /\ Len(in2.description) < MaxVariantLen
    /\ \E c \in Whitespace, i \in 2..Len(in2.description) :
           /\ in2.description[i] \in Whitespace
           /\ in2' = [in2 EXCEPT !.description = InsertAt(@, i, c)]
    /\ UNCHANGED <<in1, h1, h2, StoreVars>>

NextNorm == ChangeCase \/ PadEnds \/ WidenRun \/ ComputeHashes

SpecNorm == InitNorm /\ [][NextNorm]_vars

-----------------------------------------------------------------------------
(* Claims about generate_hash_id *)

\* ref_id as the hash sees it: None and "" are both "no reference".
RefOf(args) == IF TruthySeq(args.ref_id) THEN args.ref_id ELSE NoneSeq

\* C4: two argument tuples get the same hash only if they agree on the date,
\* the signed two-decimal amount, the normalized description and the ref_id.
C4_SameHashSameFields ==
    (Hashed /\ h1 = h2) =>
        /\ in1.date = in2.date
        /\ Format2f(in1.amount) = Format2f(in2.amount)
        /\ normalize_description(in1.description) = normalize_description(in2.description)
        /\ RefOf(in1) = RefOf(in2)

\* C5: descriptions that differ only in letter case, leading or trailing
\* whitespace or the width of whitespace runs hash alike, date, amount and
\* ref_id being the same.
C5_HashIgnoresCaseAndSpacing ==
    Hashed =>
        /\ in1.date = in2.date /\ in1.amount = in2.amount /\ in1.ref_id = in2.ref_id
        /\ h1 = h2

\* A variant two characters longer than its base, with an internal run
\* widened and a letter in the other case, was hashed.
C5_Witness ==
    /\ Hashed
    /\ Len(in2.description) >= Len(in1.description) + 2
    /\ \E i \in 2..(Len(in2.description) - 2) :
           /\ in2.description[i] \in Whitespace
           /\ in2.description[i + 1] \in Whitespace
           /\ in2.description[i - 1] \notin Whitespace
           /\ in2.description[i + 2] \notin Whitespace
    /\ normalize_description_nolower(in1.description)
           # normalize_description_nolower(in2.description)
    /\ h1 = h2

\* in2 is in1 with the amount negated.
Negated == in2 = [in1 EXCEPT !.amount = -in1.amount]

Unreferenced(args, amount_str) ==
    DateIso(args.date) \o <<"_">> \o amount_str \o <<"_">>
        \o normalize_description(args.description)

-----------------------------------------------------------------------------
(* Documents of the store *)

\* The identity hash add_transaction computes for a transaction dict.
HashId(tx) == generate_hash_id(DateIso(tx.date), tx.amount, tx.description, tx.ref_id)

\* The dict add_transaction writes for a new transaction: the copy of the
\* input with its _id and a default category. A parsed transaction carries
\* no not_duplicate_of key; the reads take the missing key as the empty list.
\* A category of None stands for a dict without the key; uploaded_at, the
\* time of the write, is left out.
NewDocument(transaction, hash_id) ==
    [date |-> transaction.date,
     amount |-> transaction.amount,
     description |-> transaction.description,
     ref_id |-> transaction.ref_id,
     category |-> IF transaction.category = None THEN "Uncategorized"
                  ELSE transaction.category,
     source_file |-> transaction.source_file,
     spender |-> transaction.spender,
     bank_category |-> transaction.bank_category,
     transaction_type |-> transaction.transaction_type,
     uploaded_from |-> transaction.uploaded_from,
     _id |-> hash_id,
     not_duplicate_of |-> {}]

\* A lookup that never finds the document.
Exists_never(st, id) == FALSE

\* doc_ref.get().exists
Exists(st, id) == \E d \in st : d._id = id

Document(st, id) == CHOOSE d \in st : d._id = id

\* dict.update(updates) on a document; updates is a function on some keys.
Updated(d, updates) ==
    [k \in DOMAIN d |-> IF k \in DOMAIN updates THEN updates[k] ELSE d[k]]

\* The store with document id replaced by its updated version.
WithUpdate(st, id, updates) ==
    {IF d._id = id THEN Updated(d, updates) ELSE d : d \in st}

Without(seq, id) == SelectSeq(seq, LAMBDA x : x # id)

\* _clear_transaction_cache(): get_transactions_by_range.clear().
cleared_cache == <<>>

-----------------------------------------------------------------------------
(* add_transaction *)

enrichable_fields == {"uploaded_from", "bank_category", "transaction_type", "spender"}

\* An enrichment that overwrites whatever is stored with any new value.
updates_overwriting(existing_data, transaction) ==
    {field \in enrichable_fields :
        Truthy(transaction[field]) /\ existing_data[field] # transaction[field]}

\* An enrichment that treats uploaded_from like the other fields.
updates_filling_only(existing_data, transaction) ==
    {field \in enrichable_fields :
        Truthy(transaction[field]) /\ existing_data[field] = None}

\* The keys of the updates dict built by the loop over enrichable_fields.
updates_of(existing_data, transaction) ==
    {field \in enrichable_fields :
        /\ Truthy(transaction[field])
        /\ \/ existing_data[field] = None
           \/ field = "uploaded_from" /\ existing_data[field] # transaction[field]}

\* The MOCK_MODE branch compares uploaded_from alone.
mock_updates_of(existing, transaction) ==
    {field \in {"uploaded_from"} :
        Truthy(transaction[field]) /\ existing[field] # transaction[field]}

\* The updates dict: the new values of the chosen keys.
Enrichment(transaction, keys) == [field \in keys |-> transaction[field]]

\* add_transaction(transaction) once hash_id is computed: the status returned
\* and the store, the file order and the cache it leaves.
\* In MOCK_MODE without mock_db.json, open() raises FileNotFoundError, which
\* is caught: 'skipped'.
AddWithId(mock, file, st, ord, cache, transaction, hash_id) ==
    IF mock /\ ~file
    THEN [status |-> "skipped", store |-> st, order |-> ord, cache |-> cache]
    ELSE IF Exists(st, hash_id)
    THEN LET existing_data == Document(st, hash_id)
             keys == IF mock THEN mock_updates_of(existing_data, transaction)
                     ELSE updates_of(existing_data, transaction)
         IN  IF keys # {}
             THEN [status |-> "updated",
                   store |-> WithUpdate(st, hash_id, Enrichment(transaction, keys)),
                   order |-> ord,
                   cache |-> IF mock THEN cache ELSE cleared_cache]
             ELSE [status |-> "skipped", store |-> st, order |-> ord, cache |-> cache]
    ELSE [status |-> "added",
          store |-> st \cup {NewDocument(transaction, hash_id)},
          order |-> IF mock THEN Append(ord, hash_id) ELSE ord,
          cache |-> IF mock THEN cache ELSE cleared_cache]

AddOutcome(mock, file, st, ord, cache, transaction) ==
    CHOOSE out \in {AddWithId(mock, file, st, ord, cache, transaction, hash_id) :
                       hash_id \in {HashId(transaction)}} : TRUE

ImportIdle == doc = <<>> /\ pos = 0 /\ pass = 0 /\ statuses = <<>>

add_transaction(transaction) ==
    /\ ImportIdle
    /\ \E out \in {AddOutcome(MOCK_MODE, mock_db, store, order, range_cache, transaction)} :
           /\ store' = out.store
           /\ order' = out.order
           /\ range_cache' = out.cache
           /\ last' = [op |-> "add_transaction", arg |-> transaction, result |-> out.status]
    /\ UNCHANGED <<MOCK_MODE, mock_db, doc, pos, pass, statuses, HashVars, ParseVars, FlowVars>>

-----------------------------------------------------------------------------
(* update_transaction, delete_transaction, mark_as_not_duplicate *)

\* update_transaction(transaction_id, updates). Firestore's update() of a
\* missing document raises NotFound, which is caught: False. The mock loop
\* finds nothing to update and still reports True; without mock_db.json it
\* reports False.
update_transaction(transaction_id, updates) ==
    /\ ImportIdle
    /\ IF MOCK_MODE /\ ~mock_db
       THEN /\ UNCHANGED <<store, range_cache>>
            /\ last' = [op |-> "update_transaction", arg |-> transaction_id,
                        result |-> FALSE]
       ELSE IF Exists(store, transaction_id)
       THEN /\ store' = WithUpdate(store, transaction_id, updates)
            /\ range_cache' = IF MOCK_MODE THEN range_cache ELSE cleared_cache
            /\ last' = [op |-> "update_transaction", arg |-> transaction_id, result |-> TRUE]
       ELSE /\ UNCHANGED <<store, range_cache>>
            /\ last' = [op |-> "update_transaction", arg |-> transaction_id,
                        result |-> MOCK_MODE]
    /\ UNCHANGED <<MOCK_MODE, mock_db, order, doc, pos, pass, statuses, HashVars, ParseVars, FlowVars>>

\* delete_transaction(transaction_id): the document goes, whatever the other
\* documents hold about it stays. Without mock_db.json there is no document,
\* and the mock branch reports False.
delete_transaction(transaction_id) ==
    /\ ImportIdle
    /\ store' = {d \in store : d._id # transaction_id}
    /\ order' = Without(order, transaction_id)
    /\ range_cache' = IF MOCK_MODE THEN range_cache ELSE cleared_cache
    /\ last' = [op |-> "delete_transaction", arg |-> transaction_id,
                result |-> (MOCK_MODE => mock_db)]
    /\ UNCHANGED <<MOCK_MODE, mock_db, doc, pos, pass, statuses, HashVars, ParseVars, FlowVars>>

\* The documents after ArrayUnion(others) on each document of tx_ids.
Marked(st, tx_ids) ==
    {IF d._id \in tx_ids
     THEN [d EXCEPT !.not_duplicate_of = @ \cup (tx_ids \ {d._id})]
     ELSE d : d \in st}

\* mark_as_not_duplicate(tx_ids), tx_ids a list without repeated ids, taken
\* as the set of its elements.
\* Fewer than two ids: True and nothing written. Firestore commits one batch
\* of update()s, which fails as a whole when one document is missing; the
\* mock loop marks the documents it finds, and fails without mock_db.json.
\* Neither branch clears the cache.
mark_as_not_duplicate(tx_ids) ==
    /\ ImportIdle
    /\ IF Cardinality(tx_ids) < 2
       THEN /\ UNCHANGED store
            /\ last' = [op |-> "mark_as_not_duplicate", arg |-> tx_ids, result |-> TRUE]
       ELSE IF \/ MOCK_MODE /\ ~mock_db
               \/ ~MOCK_MODE /\ \E id \in tx_ids : ~Exists(store, id)
       THEN /\ UNCHANGED store
            /\ last' = [op |-> "mark_as_not_duplicate", arg |-> tx_ids, result |-> FALSE]
       ELSE /\ store' = Marked(store, tx_ids)
            /\ last' = [op |-> "mark_as_not_duplicate", arg |-> tx_ids, result |-> TRUE]
    /\ UNCHANGED <<MOCK_MODE, mock_db, order, range_cache, doc, pos, pass, statuses, HashVars, ParseVars, FlowVars>>

\* delete_all_transactions(): the mock branch writes the empty list to
\* mock_db.json, creating the file, and returns 0; the Firestore branch
\* deletes every document, clears the cache and returns their number.
delete_all_transactions ==
    /\ ImportIdle
    /\ mock_db' = MOCK_MODE
    /\ store' = {}
    /\ order' = <<>>
    /\ range_cache' = IF MOCK_MODE THEN range_cache ELSE cleared_cache
    /\ last' = [op |-> "delete_all_transactions", arg |-> None,
                result |-> IF MOCK_MODE THEN 0 ELSE Cardinality(store)]
    /\ UNCHANGED <<MOCK_MODE, doc, pos, pass, statuses, HashVars, ParseVars, FlowVars>>

-----------------------------------------------------------------------------
(* calculate_duplicate_confidence *)

Min(S) == CHOOSE x \in S : \A y \in S : x <= y

Max(S) == CHOOSE x \in S : \A y \in S : x >= y

\* The total size of the matching blocks of difflib.SequenceMatcher(None, a, b):
\* the longest common block, the earliest in a and then in b among the
\* longest, and recursively the blocks left and right of it. (autojunk acts
\* on sequences of 200 elements and more only.)
RECURSIVE MatchingSize(_, _)
MatchingSize(a, b) ==
    LET Common(i, j, k) ==
            /\ i + k - 1 <= Len(a)
            /\ j + k - 1 <= Len(b)
            /\ SubSeq(a, i, i + k - 1) = SubSeq(b, j, j + k - 1)
        sizes == {k \in 1..Len(a) : \E i \in 1..Len(a), j \in 1..Len(b) : Common(i, j, k)}
    IN  IF sizes = {} THEN 0
        ELSE LET k == Max(sizes)
                 i == Min({x \in 1..Len(a) : \E y \in 1..Len(b) : Common(x, y, k)})
                 j == Min({y \in 1..Len(b) : Common(i, y, k)})
             IN  k + MatchingSize(SubSeq(a, 1, i - 1), SubSeq(b, 1, j - 1))
                   + MatchingSize(SubSeq(a, i + k, Len(a)), SubSeq(b, j + k, Len(b)))

\* ratio() > num/den, ratio() being 2.0 * matches / (len(a) + len(b)) and 1.0
\* for two empty sequences.
RatioAbove(a, b, num, den) ==
    IF Len(a) + Len(b) = 0 THEN num < den
    ELSE 2 * MatchingSize(a, b) * den > num * (Len(a) + Len(b))

\* int(ratio() * 100)
RatioPercent(a, b) ==
    IF Len(a) + Len(b) = 0 THEN 100
    ELSE (200 * MatchingSize(a, b)) \div (Len(a) + Len(b))

bank_sources == {"OneZero_Table", "OneZero_Excel"}

cc_sources == {"Isracard", "Max_Card", "Isracard_PDF_Fixed"}

\* is_bank_cc_overlap(tx1, tx2): the describing string, or None.
is_bank_cc_overlap(tx1, tx2) ==
    LET src1 == tx1.source_file
        src2 == tx2.source_file
    IN  IF src1 \in bank_sources /\ src2 \in cc_sources /\ tx1.category = "Credit Card Payoff"
        THEN "bank-cc overlap"
        ELSE IF ~(src1 \in bank_sources /\ src2 \in cc_sources)
                /\ src2 \in bank_sources /\ src1 \in cc_sources
                /\ tx2.category = "Credit Card Payoff"
        THEN "bank-cc overlap"
        ELSE IF src1 \in bank_sources /\ src2 \in bank_sources /\ src1 # src2
        THEN "multi-format"
        ELSE IF src1 \in cc_sources /\ src2 \in cc_sources /\ src1 # src2
        THEN "multi-format"
        ELSE None

\* Python floats are IEEE 754 doubles. The doubles of the score lie in
\* [0, 2) and are multiples of 2^-57; the double n * 2^-57 is the record of
\* the two limbs of n = hi * 2^29 + lo.
LIMB == 2^29

Double(hi, lo) == [hi |-> hi, lo |-> lo]

\* The unit in the last place of the 53-bit significand of n = hi * LIMB + lo,
\* in multiples of 2^-57.
Ulp(hi) ==
    IF hi >= 2^28 THEN 32
    ELSE IF hi >= 2^27 THEN 16
    ELSE IF hi >= 2^26 THEN 8
    ELSE IF hi >= 2^25 THEN 4
    ELSE IF hi >= 2^24 THEN 2
    ELSE 1

\* The double nearest to hi * LIMB + lo, ties to the even significand.
RoundToDouble(hi, lo) ==
    LET ulp == Ulp(hi)
        rest == lo % ulp
        down == lo - rest
        up == 2 * rest > ulp \/ (2 * rest = ulp /\ (down \div ulp) % 2 = 1)
        rounded == IF up THEN down + ulp ELSE down
    IN  IF rounded = LIMB THEN Double(hi + 1, 0) ELSE Double(hi, rounded)

\* x + y of two floats: the exact sum, rounded.
FloatAdd(x, y) ==
    RoundToDouble(x.hi + y.hi + ((x.lo + y.lo) \div LIMB), (x.lo + y.lo) % LIMB)

\* x < y and x >= y of two floats.
FloatLess(x, y) == x.hi < y.hi \/ (x.hi = y.hi /\ x.lo < y.lo)

FloatGeq(x, y) == ~FloatLess(x, y)

\* The float literals of the score, as the doubles Python reads them.
ZERO == Double(0, 0)                         \* 0.0
ONE == Double(268435456, 0)                  \* 1.0
SAME_DATE == Double(80530636, 429496728)     \* 0.30 = 0x1.3333333333333p-2
EXACT_AMOUNT == Double(93952409, 322122544)  \* 0.35 = 0x1.6666666666666p-2
NEAR_AMOUNT == Double(67108864, 0)           \* 0.25 = 0x1.0000000000000p-2
DESC_HIGH == Double(67108864, 0)             \* 0.25
DESC_MEDIUM == Double(40265318, 214748364)   \* 0.15 = 0x1.3333333333333p-3
CROSS_SOURCE == Double(53687091, 107374184)  \* 0.20 = 0x1.999999999999ap-3
SAME_SPENDER == Double(13421772, 429496730)  \* 0.05 = 0x1.999999999999ap-5

\* score += component, for the components that fire, in the order of the code.
RECURSIVE Accumulate(_, _)
Accumulate(score, components) ==
    IF components = <<>> THEN score
    ELSE Accumulate(FloatAdd(score, Head(components)), Tail(components))

\* calculate_duplicate_confidence(tx1, tx2): [confidence, reason], the reason
\* as the list of reasons the code joins with "; ".
calculate_duplicate_confidence(tx1, tx2) ==
    LET amt1 == Abs(tx1.amount)
        amt2 == Abs(tx2.amount)
        desc1 == normalize_description(tx1.description)
        desc2 == normalize_description(tx2.description)
        date == IF tx1.date = tx2.date
                THEN [score |-> <<SAME_DATE>>, reasons |-> <<"same date">>]
                ELSE [score |-> <<>>, reasons |-> <<>>]
        amount == IF amt1 = amt2
                  THEN [score |-> <<EXACT_AMOUNT>>, reasons |-> <<"exact amount">>]
                  ELSE IF amt1 > 0 /\ 100 * Abs(amt1 - amt2) < 5 * amt1
                  THEN [score |-> <<NEAR_AMOUNT>>, reasons |-> <<"amount ~5%">>]
                  ELSE [score |-> <<>>, reasons |-> <<>>]
        desc == IF RatioAbove(desc1, desc2, 8, 10)
                THEN [score |-> <<DESC_HIGH>>, reasons |-> << <<"desc", RatioPercent(desc1, desc2)>> >>]
                ELSE IF RatioAbove(desc1, desc2, 6, 10)
                THEN [score |-> <<DESC_MEDIUM>>, reasons |-> << <<"desc", RatioPercent(desc1, desc2)>> >>]
                ELSE [score |-> <<>>, reasons |-> <<>>]
        overlap_type == is_bank_cc_overlap(tx1, tx2)
        overlap == IF overlap_type # None
                   THEN [score |-> <<CROSS_SOURCE>>, reasons |-> <<overlap_type>>]
                   ELSE [score |-> <<>>, reasons |-> <<>>]
        spender == IF tx1.spender = tx2.spender /\ Truthy(tx1.spender)
                   THEN [score |-> <<SAME_SPENDER>>, reasons |-> <<"same owner">>]
                   ELSE [score |-> <<>>, reasons |-> <<>>]
        score == Accumulate(ZERO, date.score \o amount.score \o desc.score
                                      \o overlap.score \o spender.score)
    IN  [confidence |-> IF FloatLess(score, ONE) THEN score ELSE ONE,
         reason |-> date.reasons \o amount.reasons \o desc.reasons
                        \o overlap.reasons \o spender.reasons]

-----------------------------------------------------------------------------
(* Reading the collection *)

\* The lists that hold each element of S once.
Listings(S) ==
    {f \in [1..Cardinality(S) -> S] : \A i, j \in 1..Cardinality(S) : f[i] = f[j] => i = j}

InSeq(x, seq) == \E i \in 1..Len(seq) : seq[i] = x

\* The orders in which collection.stream() / json.load may list the
\* documents: the file order in MOCK_MODE; Firestore lists by document id, a
\* SHA-256 digest, so any order of the contents.
StreamOrders(mock, st, ord) ==
    IF mock THEN {[i \in 1..Len(ord) |-> Document(st, ord[i])]}
    ELSE Listings(st)

\* What get_transactions_by_range(start_date, end_date) may read from the
\* store: the mock filters the file in its order; Firestore's inequality
\* query lists by date and then by document id.
RangeReads(mock, st, ord, start_date, end_date) ==
    LET InRange(d) == start_date <= d.date /\ d.date <= end_date
    IN  IF mock
        THEN {SelectSeq(listing, InRange) : listing \in StreamOrders(mock, st, ord)}
        ELSE {listing \in Listings({d \in st : InRange(d)}) :
                 \A i, j \in 1..Len(listing) : i < j => listing[i].date <= listing[j].date}

\* list.sort(key=confidence, reverse=True): stable, highest first.
RECURSIVE SortByConfidence(_)
SortByConfidence(seq) ==
    IF seq = <<>> THEN <<>>
    ELSE LET sorted == SortByConfidence(SubSeq(seq, 1, Len(seq) - 1))
             x == seq[Len(seq)]
             before == SelectSeq(sorted, LAMBDA y : FloatGeq(y.confidence, x.confidence))
             after == SelectSeq(sorted, LAMBDA y : FloatLess(y.confidence, x.confidence))
         IN  before \o <<x>> \o after

-----------------------------------------------------------------------------
(* find_potential_duplicates *)

\* The threshold of the full scan.
SCAN_THRESHOLD == Double(161061273, 322122544)    \* 0.6 = 0x1.3333333333333p-1

GroupKey(tx) == <<tx.date, Abs(tx.amount)>>

\* The keys of the grouped dict, in insertion order.
RECURSIVE KeysInOrder(_)
KeysInOrder(transactions) ==
    IF transactions = <<>> THEN <<>>
    ELSE <<GroupKey(Head(transactions))>>
             \o KeysInOrder(SelectSeq(Tail(transactions),
                    LAMBDA tx : GroupKey(tx) # GroupKey(Head(transactions))))

\* for i in range(len(group)): for j in range(i + 1, len(group))
RECURSIVE PairsOf(_)
PairsOf(group) ==
    IF Len(group) < 2 THEN <<>>
    ELSE [j \in 1..(Len(group) - 1) |-> <<group[1], group[j + 1]>>] \o PairsOf(Tail(group))

\* The pairs of all groups, in the order the loops visit them.
RECURSIVE PairsOfGroups(_, _)
PairsOfGroups(keys, transactions) ==
    IF keys = <<>> THEN <<>>
    ELSE PairsOf(SelectSeq(transactions, LAMBDA tx : GroupKey(tx) = Head(keys)))
             \o PairsOfGroups(Tail(keys), transactions)

\* The explicit ignore list of a pair.
MarkedNotDuplicate(tx1, tx2) ==
    tx2._id \in tx1.not_duplicate_of \/ tx1._id \in tx2.not_duplicate_of

\* The body of the inner loop for one pair: potential_dupes afterwards.
ScanPair(potential_dupes, tx1, tx2) ==
    LET found == calculate_duplicate_confidence(tx1, tx2)
        holding == {n \in 1..Len(potential_dupes) :
                       \/ InSeq(tx1, potential_dupes[n].transactions)
                       \/ InSeq(tx2, potential_dupes[n].transactions)}
    IN  IF MarkedNotDuplicate(tx1, tx2) \/ FloatLess(found.confidence, SCAN_THRESHOLD)
        THEN potential_dupes
        ELSE IF holding # {}
        THEN LET n == Min(holding)
                 existing_group == potential_dupes[n]
                 with1 == IF InSeq(tx1, existing_group.transactions)
                          THEN existing_group.transactions
                          ELSE Append(existing_group.transactions, tx1)
                 with2 == IF InSeq(tx2, with1) THEN with1 ELSE Append(with1, tx2)
                 better == FloatLess(existing_group.confidence, found.confidence)
             IN  [potential_dupes EXCEPT ![n] =
                     [transactions |-> with2,
                      confidence |-> IF better THEN found.confidence ELSE @.confidence,
                      reason |-> IF better THEN found.reason ELSE @.reason]]
        ELSE Append(potential_dupes,
                 [transactions |-> <<tx1, tx2>>,
                  confidence |-> found.confidence,
                  reason |-> found.reason])

RECURSIVE ScanPairs(_, _)
ScanPairs(potential_dupes, pairs) ==
    IF pairs = <<>> THEN potential_dupes
    ELSE ScanPairs(ScanPair(potential_dupes, Head(pairs)[1], Head(pairs)[2]), Tail(pairs))

\* The groups returned for the documents as listed.
PotentialDuplicates(transactions) ==
    SortByConfidence(
        ScanPairs(<<>>, PairsOfGroups(KeysInOrder(transactions), transactions)))

find_potential_duplicates ==
    /\ ImportIdle
    /\ \E transactions \in StreamOrders(MOCK_MODE, store, order) :
           \E potential_dupes \in {PotentialDuplicates(transactions)} :
               last' = [op |-> "find_potential_duplicates", arg |-> None,
                        result |-> potential_dupes]
    /\ UNCHANGED <<MOCK_MODE, mock_db, store, order, range_cache, doc, pos, pass, statuses, HashVars, ParseVars, FlowVars>>

-----------------------------------------------------------------------------
(* check_for_near_duplicates *)

\* timedelta(days=3)
WINDOW_DAYS == 3

\* The matches of a candidate among the listed documents.
NearMatches(transaction, existing_txs, threshold) ==
    LET Match(existing) ==
            CHOOSE m \in {[existing |-> existing, confidence |-> found.confidence,
                           reason |-> found.reason] :
                              found \in {calculate_duplicate_confidence(transaction, existing)}} :
                TRUE
        all == [i \in 1..Len(existing_txs) |-> Match(existing_txs[i])]
    IN  SortByConfidence(SelectSeq(all, LAMBDA m : FloatGeq(m.confidence, threshold)))

\* The date of a candidate: a day of January 2025 stands for its ISO
\* string, NO_DATE for a missing date (None or ''), and a day past the 31st
\* for a string that strptime rejects ('2025-01-32').
NO_DATE == 0
LAST_DAY == 31

\* datetime.strptime(date, '%Y-%m-%d') succeeds.
Parseable(date) == date >= 1 /\ date <= LAST_DAY

\* check_for_near_duplicates(transaction, threshold): without a date that
\* parses, the empty list. Otherwise the range query goes through
\* st.cache_data, which answers from its entry for (start, end) when it has
\* one.
check_for_near_duplicates(transaction, threshold) ==
    LET start == transaction.date - WINDOW_DAYS
        end == transaction.date + WINDOW_DAYS
        key == <<start, end>>
    IN  /\ ImportIdle
        /\ IF transaction.date = NO_DATE \/ ~Parseable(transaction.date)
           THEN /\ last' = [op |-> "check_for_near_duplicates", arg |-> transaction,
                            threshold |-> threshold, result |-> <<>>]
                /\ UNCHANGED range_cache
           ELSE IF key \in DOMAIN range_cache
           THEN /\ \E matches \in {NearMatches(transaction, range_cache[key], threshold)} :
                       last' = [op |-> "check_for_near_duplicates", arg |-> transaction,
                                threshold |-> threshold, result |-> matches]
                /\ UNCHANGED range_cache
           ELSE \E existing_txs \in RangeReads(MOCK_MODE, store, order, start, end) :
                    /\ \E matches \in {NearMatches(transaction, existing_txs, threshold)} :
                           last' = [op |-> "check_for_near_duplicates", arg |-> transaction,
                                    threshold |-> threshold, result |-> matches]
                    /\ range_cache' = (key :> existing_txs) @@ range_cache
        /\ UNCHANGED <<MOCK_MODE, mock_db, store, order, doc, pos, pass, statuses, HashVars, ParseVars, FlowVars>>

\* st.cache_data(ttl=60): the entries are dropped a minute after they were made.
cache_expires ==
    /\ ImportIdle
    /\ range_cache # <<>>
    /\ \E key \in DOMAIN range_cache :
           range_cache' = IF DOMAIN range_cache = {key} THEN cleared_cache
                          ELSE [k \in DOMAIN range_cache \ {key} |-> range_cache[k]]
    /\ UNCHANGED <<MOCK_MODE, mock_db, store, order, last, doc, pos, pass, statuses, HashVars, ParseVars, FlowVars>>

-----------------------------------------------------------------------------
(* Specification of the store under imports that enrich: one transaction   *)
(* parsed with every combination of its optional fields, one other         *)
(* transaction, and the edits and deletions of the data editor             *)

EnrichTxs ==
    [date : {1}, amount : {-1000}, description : {<<"a">>},
     ref_id : {NoneSeq}, category : {"Food"}, source_file : {"OneZero_Excel"},
     spender : {None, "Dmitry", "Joint"},
     bank_category : {None, ""},
     transaction_type : {None, "debit"},
     uploaded_from : {None, "a.csv", "b.csv"}]
    \cup
    [date : {2}, amount : {1000}, description : {<<"a">>},
     ref_id : {NoneSeq}, category : {None}, source_file : {"Isracard"},
     spender : {None}, bank_category : {None}, transaction_type : {None},
     uploaded_from : {"a.csv"}]

IdsOf(txs) == {HashId(tx) : tx \in txs}

EnrichIds == IdsOf(EnrichTxs)

\* The edits of the data editor the model draws.
EnrichUpdates == {[spender |-> "Yaara"]}

StoreInit ==
    /\ MOCK_MODE \in BOOLEAN
    /\ mock_db \in (IF MOCK_MODE THEN BOOLEAN ELSE {FALSE})
    /\ store = {}
    /\ order = <<>>
    /\ range_cache = cleared_cache
    /\ last = [op |-> "none"]
    /\ ImportIdle
    /\ HashIdle
    /\ ParseIdle
    /\ FlowIdle

Init == StoreInit

Next ==
    \/ \E transaction \in EnrichTxs : add_transaction(transaction)
    \/ \E id \in EnrichIds, updates \in EnrichUpdates : update_transaction(id, updates)
    \/ \E id \in EnrichIds : delete_transaction(id)
    \/ delete_all_transactions

Spec == Init /\ [][Next]_vars

-----------------------------------------------------------------------------
(* Specification of the store under duplicate review: three transactions   *)
(* of one day and one absolute amount                                      *)

Parsed(date, amount, ref_id) ==
    [date |-> date, amount |-> amount, description |-> <<"a">>, ref_id |-> ref_id,
     category |-> "Food", source_file |-> "OneZero_Excel", spender |-> None,
     bank_category |-> None, transaction_type |-> None, uploaded_from |-> "a.csv"]

DupTxs ==
    {Parsed(1, -1000, NoneSeq), Parsed(1, 1000, NoneSeq), Parsed(1, -1000, <<"a">>)}

DupIds == IdsOf(DupTxs)

DupUpdates == {[category |-> "Other"]}

NextDup ==
    \/ \E transaction \in DupTxs : add_transaction(transaction)
    \/ \E id \in DupIds, updates \in DupUpdates : update_transaction(id, updates)
    \/ \E id \in DupIds : delete_transaction(id)
    \/ \E tx_ids \in SUBSET DupIds : tx_ids # {} /\ mark_as_not_duplicate(tx_ids)
    \/ find_potential_duplicates
    \/ delete_all_transactions

SpecDup == Init /\ [][NextDup]_vars

-----------------------------------------------------------------------------
(* Specification of the pre-insert check: two transactions that differ in  *)
(* their reference only, and one a week later                              *)

NearTxs ==
    {Parsed(1, -1000, NoneSeq), Parsed(1, -1000, <<"a">>), Parsed(8, -1000, NoneSeq)}

NearIds == IdsOf(NearTxs)

\* threshold: the default of check_for_near_duplicates and the one
\* render_upload passes.
DEFAULT_THRESHOLD == Double(187904819, 107374176)    \* 0.7 = 0x1.6666666666666p-1
UPLOAD_THRESHOLD == Double(201326592, 0)             \* 0.75

NextNear ==
    \/ \E transaction \in NearTxs : add_transaction(transaction)
    \/ \E id \in NearIds : delete_transaction(id)
    \/ \E tx_ids \in SUBSET NearIds : tx_ids # {} /\ mark_as_not_duplicate(tx_ids)
    \/ \E transaction \in NearTxs, threshold \in {DEFAULT_THRESHOLD, UPLOAD_THRESHOLD} :
           check_for_near_duplicates(transaction, threshold)
    \/ cache_expires

\* The deployment with Firebase credentials, where every write of a
\* transaction clears the cache.
InitNear == StoreInit /\ ~MOCK_MODE

SpecNear == InitNear /\ [][NextNear]_vars

-----------------------------------------------------------------------------
(* Specification of an upload imported twice: _insert_transactions_direct  *)
(* run on the parsed transactions of one document, and run again           *)

ImportTxs ==
    [date : {1}, amount : {-1000, 1000}, description : {<<"a">>, <<"A", " ">>},
     ref_id : {NoneSeq}, category : {"Food"}, source_file : {"OneZero_Excel"},
     spender : {None}, bank_category : {None}, transaction_type : {None},
     uploaded_from : {"a.csv", "b.csv"}]

Documents == UNION {[1..n -> ImportTxs] : n \in 1..MaxDoc}

InitImport ==
    /\ MOCK_MODE \in BOOLEAN
    /\ mock_db \in (IF MOCK_MODE THEN BOOLEAN ELSE {FALSE})
    /\ store = {}
    /\ order = <<>>
    /\ range_cache = cleared_cache
    /\ last = [op |-> "none"]
    /\ doc \in Documents
    /\ pos = 1
    /\ pass = 1
    /\ statuses = << <<>>, <<>> >>
    /\ HashIdle
    /\ ParseIdle
    /\ FlowIdle

\* One iteration of the loop of _insert_transactions_direct.
insert_next ==
    /\ pass \in {1, 2}
    /\ pos <= Len(doc)
    /\ \E out \in {AddOutcome(MOCK_MODE, mock_db, store, order, range_cache, doc[pos])} :
           /\ store' = out.store
           /\ order' = out.order
           /\ range_cache' = out.cache
           /\ last' = [op |-> "add_transaction", arg |-> doc[pos], result |-> out.status]
           /\ statuses' = [statuses EXCEPT ![pass] = Append(@, out.status)]
    /\ pos' = pos + 1
    /\ UNCHANGED <<MOCK_MODE, mock_db, doc, pass, HashVars, ParseVars, FlowVars>>

\* The loop is over: the results are shown, and the same document is
\* uploaded again.
insert_done ==
    /\ pass \in {1, 2}
    /\ pos > Len(doc)
    /\ pass' = pass + 1
    /\ pos' = 1
    /\ UNCHANGED <<MOCK_MODE, mock_db, store, order, range_cache, last, doc, statuses, HashVars, ParseVars, FlowVars>>

NextImport == insert_next \/ insert_done

SpecImport == InitImport /\ [][NextImport]_vars

ImportedTwice == pass = 3

-----------------------------------------------------------------------------
(* Claims on add_transaction *)

\* Whether a field of a stored document holds Python's None. The date, the
\* amount, the id and the list of ids are never None in a stored document.
IsNone(d, field) ==
    IF field \in {"description", "ref_id"} THEN d[field] = NoneSeq
    ELSE IF field \in {"date", "amount", "_id", "not_duplicate_of"} THEN FALSE
    ELSE d[field] = None

DocFields ==
    {"date", "amount", "description", "ref_id", "category", "source_file", "spender",
     "bank_category", "transaction_type", "uploaded_from", "_id", "not_duplicate_of"}

AppliedFields(mock, d, tx) ==
    LET fill == {field \in enrichable_fields :
                    tx[field] \notin {None, ""} /\ d[field] = None}
        replace == {field \in {"uploaded_from"} : tx[field] \notin {None, "", d[field]}}
    IN  IF mock THEN replace ELSE fill \cup replace

-----------------------------------------------------------------------------
(* Claims on not_duplicate_of *)

\* C8: no group of find_potential_duplicates holds two transactions one of
\* which lists the other in not_duplicate_of.
C8_NoMarkedPairInGroup ==
    last.op = "find_potential_duplicates" =>
        \A n \in 1..Len(last.result) :
            LET transactions == last.result[n].transactions
            IN  \A i, j \in 1..Len(transactions) :
                    i # j => ~MarkedNotDuplicate(transactions[i], transactions[j])

\* C9: check_for_near_duplicates returns no stored transaction that lists
\* the candidate in its not_duplicate_of.
C9_NoMarkedMatch ==
    last.op = "check_for_near_duplicates" =>
        \A n \in 1..Len(last.result) :
            HashId(last.arg) \notin last.result[n].existing.not_duplicate_of

\* C10: in every state of the store, a lists b in not_duplicate_of exactly
\* when b lists a.
C10_Symmetric ==
    \A a, b \in store : b._id \in a.not_duplicate_of => a._id \in b.not_duplicate_of

-----------------------------------------------------------------------------
(* Specification of the scan over four transactions of one day and one     *)
(* absolute amount, pairs of which are marked as not duplicates            *)

GroupTxs ==
    {Parsed(1, -1000, NoneSeq), Parsed(1, 1000, NoneSeq),
     Parsed(1, -1000, <<"a">>), Parsed(1, 1000, <<"a">>)}

GroupIds == IdsOf(GroupTxs)

NextGroup ==
    \/ \E transaction \in GroupTxs : add_transaction(transaction)
    \/ \E tx_ids \in SUBSET GroupIds :
           Cardinality(tx_ids) = 2 /\ mark_as_not_duplicate(tx_ids)
    \/ find_potential_duplicates

SpecGroup == InitNear /\ [][NextGroup]_vars

\* The match relation of the scan: confidence of at least 0.6, and neither
\* document lists the other in not_duplicate_of.
Matches(tx1, tx2) ==
    /\ tx1 # tx2
    /\ FloatGeq(calculate_duplicate_confidence(tx1, tx2).confidence, SCAN_THRESHOLD)
    /\ ~MarkedNotDuplicate(tx1, tx2)

\* C11: whenever A matches B and B matches C, one group returned by
\* find_potential_duplicates holds A, B and C.
C11_ChainsShareGroup ==
    last.op = "find_potential_duplicates" =>
        \A a, b, c \in store :
            (Matches(a, b) /\ Matches(b, c)) =>
                \E n \in 1..Len(last.result) :
                    /\ InSeq(a, last.result[n].transactions)
                    /\ InSeq(b, last.result[n].transactions)
                    /\ InSeq(c, last.result[n].transactions)

-----------------------------------------------------------------------------
(* Specification of calculate_duplicate_confidence on pairs of             *)
(* transactions: in1 and in2 are the pair, h1 the result for (in1, in2)     *)
(* and h2 the result for (in2, in1)                                         *)

\* Descriptions of similarity 0.9 (the first two), 0.8 (the last two) and
\* below 0.6 (the others).
ConfDescriptions ==
    {<<"a", "b", "c", "d", "e", "f", "g", "h", "i", "j">>,
     <<"a", "b", "c", "d", "e", "f", "g", "h", "i", "x">>,
     <<"a", "b">>, <<"a", "b", "c">>}

\* Amounts: equal in absolute value, 2% apart, and far apart.
ConfAmounts == {-1000, 1000, 1020, 2000}

ConfTxs ==
    [date : {1, 2}, amount : ConfAmounts, description : ConfDescriptions,
     ref_id : {NoneSeq}, category : {"Food", "Credit Card Payoff"},
     source_file : {"OneZero_Excel", "OneZero_Table", "Isracard"},
     spender : {None, "Dmitry"}, bank_category : {None},
     transaction_type : {None}, uploaded_from : {"a.csv"}]

\* No call made yet.
NoScore == [confidence |-> None]

\* The pairs: every transaction against the ones of the first day.
InitConf ==
    /\ StoreIdle
    /\ ParseIdle
    /\ FlowIdle
    /\ in1 \in ConfTxs
    /\ in2 \in {tx \in ConfTxs : tx.date = 1 /\ tx.spender = "Dmitry"}
    /\ h1 = NoScore
    /\ h2 = NoScore

ComputeConfidence ==
    /\ h1 = NoScore
    /\ h1' = calculate_duplicate_confidence(in1, in2)
    /\ h2' = calculate_duplicate_confidence(in2, in1)
    /\ UNCHANGED <<StoreVars, in1, in2>>

NextConf == ComputeConfidence

SpecConf == InitConf /\ [][NextConf]_vars

Scored == h1 # NoScore

\* The double of the literal 0.90 = 0x1.ccccccccccccdp-1.
NINE_TENTHS == Double(241591910, 214748368)

\* C12: the score lies in [0, 1], and same date, equal absolute amounts and
\* a description similarity above 0.8 give a confidence of at least 0.90.
C12_SameDateAmountDescAtLeastNineTenths ==
    Scored =>
        /\ FloatGeq(h1.confidence, ZERO)
        /\ FloatGeq(ONE, h1.confidence)
        /\ (/\ in1.date = in2.date
            /\ Abs(in1.amount) = Abs(in2.amount)
            /\ RatioAbove(normalize_description(in1.description),
                          normalize_description(in2.description), 8, 10))
               => FloatGeq(h1.confidence, NINE_TENTHS)

-----------------------------------------------------------------------------
(* Specification of the pre-insert check against a store that changes      *)
(* between checks, in both modes: a transaction of the 1st, one of the 4th, *)
(* one of the 8th, and candidates with and without a date that parses      *)

CheckTxs == {Parsed(1, -1000, NoneSeq), Parsed(4, -1000, <<"a">>), Parsed(8, 2000, NoneSeq)}

CheckIds == IdsOf(CheckTxs)

Candidates ==
    {Parsed(1, -1000, NoneSeq), Parsed(5, 1000, NoneSeq),
     Parsed(NO_DATE, -1000, NoneSeq), Parsed(LAST_DAY + 1, -1000, NoneSeq)}

NextCheck ==
    \/ \E transaction \in CheckTxs : add_transaction(transaction)
    \/ \E id \in CheckIds : delete_transaction(id)
    \/ \E transaction \in Candidates :
           check_for_near_duplicates(transaction, UPLOAD_THRESHOLD)
    \/ cache_expires

SpecCheck == Init /\ [][NextCheck]_vars

\* C13: check_for_near_duplicates returns exactly the stored transactions
\* dated within 3 days of the candidate whose confidence reaches the
\* threshold, by descending confidence, and the empty list for a candidate
\* whose date is missing or does not parse.
C13_ExactlyStoredInWindow ==
    last.op = "check_for_near_duplicates" =>
        LET candidate == last.arg
            Reported == {last.result[n].existing._id : n \in 1..Len(last.result)}
            Expected ==
                {d._id : d \in {d \in store :
                    /\ d.date >= candidate.date - WINDOW_DAYS
                    /\ d.date <= candidate.date + WINDOW_DAYS
                    /\ FloatGeq(calculate_duplicate_confidence(candidate, d).confidence,
                                last.threshold)}}
        IN  IF candidate.date = NO_DATE \/ ~Parseable(candidate.date)
            THEN last.result = <<>>
            ELSE /\ Reported = Expected
                 /\ Len(last.result) = Cardinality(Expected)
                 /\ \A n \in 1..(Len(last.result) - 1) :
                        FloatGeq(last.result[n].confidence, last.result[n + 1].confidence)

-----------------------------------------------------------------------------
(* Specification of the scan over transactions whose amounts are close:    *)
(* 1.00 and 1.02 on one day, 1.02 on the next                              *)

CloseTxs == {Parsed(1, -1000, NoneSeq), Parsed(1, -1020, NoneSeq), Parsed(2, -1020, NoneSeq)}

CloseIds == IdsOf(CloseTxs)

NextClose ==
    \/ \E transaction \in CloseTxs : add_transaction(transaction)
    \/ \E id \in CloseIds : delete_transaction(id)
    \/ find_potential_duplicates

SpecClose == Init /\ [][NextClose]_vars

\* C14: two stored transactions of one date whose absolute amounts differ
\* by less than 5% and whose confidence reaches 0.6 are reported together in
\* a group of find_potential_duplicates.
C14_CloseAmountsReported ==
    last.op = "find_potential_duplicates" =>
        \A a, b \in store :
            (/\ a.date = b.date
             /\ Abs(a.amount) # Abs(b.amount)
             /\ 100 * Abs(Abs(a.amount) - Abs(b.amount)) < 5 * Abs(a.amount)
             /\ FloatGeq(calculate_duplicate_confidence(a, b).confidence, SCAN_THRESHOLD))
                => \E n \in 1..Len(last.result) :
                       /\ InSeq(a, last.result[n].transactions)
                       /\ InSeq(b, last.result[n].transactions)

-----------------------------------------------------------------------------
(* Amounts of the bank adapters (finance-app/src/parsers.py).               *)
(* A cell of a PDF table is its text, a sequence of characters, or NoneSeq  *)
(* for the None of an empty cell; a cell of the Excel export is a number,   *)
(* which clean_amount turns into text before parsing it.                    *)

\* Longest text of a debit cell.
MaxCellLen == 3

Digits == {"0", "1", "2", "3", "4", "5", "6", "7", "8", "9"}

DigitValue(c) == CHOOSE n \in 0..9 : Digit(n) = c

\* The characters re.sub(r'[^\d\.\-]', '', s) keeps; commas, quotes, currency
\* signs and blanks are among the ones it removes.
RECURSIVE KeepNumeric(_)
KeepNumeric(s) ==
    IF s = <<>> THEN <<>>
    ELSE IF Head(s) \in Digits \cup {".", "-"} THEN <<Head(s)>> \o KeepNumeric(Tail(s))
    ELSE KeepNumeric(Tail(s))

\* The value of a string of digits.
RECURSIVE Natural(_)
Natural(s) == IF s = <<>> THEN 0 ELSE 10 * Natural(SubSeq(s, 1, Len(s) - 1)) + DigitValue(s[Len(s)])

\* The digits after the point as thousandths.
Thousandths(s) ==
    Natural(SubSeq(s \o <<"0", "0", "0">>, 1, 3))

\* float(s) for s made of digits, points and minus signs: an optional leading
\* minus, then digits with at most one point and at least one digit; anything
\* else raises ValueError.
Unsigned(s) == IF s # <<>> /\ Head(s) = "-" THEN Tail(s) ELSE s

Points(s) == {i \in 1..Len(s) : s[i] = "."}

IsFloat(s) ==
    /\ \A i \in 1..Len(Unsigned(s)) : Unsigned(s)[i] \in Digits \cup {"."}
    /\ Cardinality(Points(Unsigned(s))) <= 1
    /\ \E i \in 1..Len(Unsigned(s)) : Unsigned(s)[i] \in Digits

Magnitude(u) ==
    IF Points(u) = {} THEN 1000 * Natural(u)
    ELSE LET p == CHOOSE i \in Points(u) : TRUE
         IN  1000 * Natural(SubSeq(u, 1, p - 1)) + Thousandths(SubSeq(u, p + 1, Len(u)))

float(s) == IF Head(s) = "-" THEN -1 * Magnitude(Unsigned(s)) ELSE Magnitude(Unsigned(s))

\* clean_amount(val_str), in thousandths: 0 for an empty cell and for a text
\* that float() rejects.
clean_amount(val_str) ==
    IF val_str = NoneSeq THEN 0
    ELSE IF KeepNumeric(val_str) = <<>> THEN 0
    ELSE IF IsFloat(KeepNumeric(val_str)) THEN float(KeepNumeric(val_str))
    ELSE 0

\* str(x) of a float of at most three decimals: the shortest text that reads
\* back as x, with at least one decimal.
RECURSIVE TrimZeros(_)
TrimZeros(s) ==
    IF Len(s) > 1 /\ s[Len(s)] = "0" THEN TrimZeros(SubSeq(s, 1, Len(s) - 1)) ELSE s

str_float(x) ==
    (IF x < 0 THEN <<"-">> ELSE <<>>)
        \o Decimal(Abs(x) \div 1000)
        \o <<".">>
        \o TrimZeros(<<Digit((Abs(x) % 1000) \div 100), Digit((Abs(x) % 100) \div 10),
                       Digit(Abs(x) % 10)>>)

\* A row of the bank PDF table that keeps the sign of the debit cell.
one_zero_pdf_amount_signed(d_cell, c_cell) ==
    IF clean_amount(d_cell) # 0
    THEN [skipped |-> FALSE, amount |-> -1 * clean_amount(d_cell)]
    ELSE IF clean_amount(c_cell) # 0
    THEN [skipped |-> FALSE, amount |-> clean_amount(c_cell)]
    ELSE [skipped |-> TRUE]

\* _parse_one_zero_pdf, the amount of a row when the header named a debit and
\* a credit column: the row is left out when both cells clean to zero.
one_zero_pdf_amount(d_cell, c_cell) ==
    LET debit == clean_amount(d_cell)
        credit == clean_amount(c_cell)
        amount_val == IF debit # 0 THEN -1 * Abs(debit)
                      ELSE IF credit # 0 THEN Abs(credit)
                      ELSE 0
    IN  IF amount_val = 0 /\ Abs(debit) < 1 /\ Abs(credit) < 1
        THEN [skipped |-> TRUE]
        ELSE [skipped |-> FALSE, amount |-> amount_val]

\* _parse_one_zero_excel, the amount and the debit/credit indicator of a row:
\* the indicator is copied and decides nothing.
one_zero_excel_amount(row) ==
    [amount |-> clean_amount(str_float(row.amount)), transaction_type |-> row.transaction_type]

CellAlphabet == {"-", "5", "0", ".", ","}

DebitCells == Seqs(CellAlphabet, MaxCellLen) \cup {NoneSeq}

CreditCells == {NoneSeq, <<>>, <<"0">>, <<"7">>, <<"-", "7">>, <<"7", "-">>}

\* Amounts of the Excel export, in thousandths, and its indicator column.
ExcelAmounts == {-720780, -50000, -5, 0, 164900, 300500}

ExcelTypes == {None, "debit", "credit"}

\* No row computed yet.
NoAmount == [computed |-> FALSE]

InitSign ==
    /\ StoreIdle
    /\ ParseIdle
    /\ FlowIdle
    /\ in1 \in [debit : DebitCells, credit : CreditCells]
    /\ in2 \in [amount : ExcelAmounts, transaction_type : ExcelTypes]
    /\ h1 = NoAmount
    /\ h2 = NoAmount

ComputeAmounts ==
    /\ "computed" \in DOMAIN h1
    /\ h1' = one_zero_pdf_amount(in1.debit, in1.credit)
    /\ h2' = one_zero_excel_amount(in2)
    /\ UNCHANGED <<in1, in2, StoreVars>>

NextSign == ComputeAmounts

SpecSign == InitSign /\ [][NextSign]_vars

Signed == "skipped" \in DOMAIN h1

\* C20: a row of the bank PDF table gets minus the magnitude of its debit cell
\* when that cell is not zero, else the magnitude of its credit cell when that
\* one is not zero, and is skipped when both are zero, whatever sign the text
\* of the cell carries; a row of the bank Excel export keeps its amount, sign
\* included, whatever its debit/credit indicator says.
C20_BankSigns ==
    Signed =>
        /\ \E debit \in {clean_amount(in1.debit)}, credit \in {clean_amount(in1.credit)} :
            /\ debit # 0 => ~h1.skipped /\ h1.amount = -1 * Abs(debit)
            /\ debit = 0 /\ credit # 0 => ~h1.skipped /\ h1.amount = Abs(credit)
            /\ debit = 0 /\ credit = 0 => h1.skipped
        /\ h2.amount = in2.amount

\* A debit cell written with a minus sign next to a credit cell, and an export
\* row whose negative amount stands beside the indicator "credit".
C20_Witness ==
    /\ Signed
    /\ in1.debit = <<"-", "5">>
    /\ in1.credit = <<"7">>
    /\ h1 = [skipped |-> FALSE, amount |-> -5000]
    /\ in2 = [amount |-> -720780, transaction_type |-> "credit"]
    /\ h2.amount = -720780

-----------------------------------------------------------------------------
(* The card CSV/XLSX adapter (finance-app/src/parsers.py, _parse_isracard). *)
(* A row is what the adapters look at: the marker and header words its      *)
(* cells hold (the Hebrew strings, named here in English), its date cell    *)
(* (NO_DATE when the cell does not look like a date, a day past LAST_DAY    *)
(* when it looks like one and parse_date rejects it) and the text of its    *)
(* amount cell.                                                             *)

\* Most rows of a sheet.
MaxRows == 4

Row(words, date, amount) == [words |-> words, date |-> date, amount |-> amount]

\* "transactions not yet recorded"; "transactions for the billing date".
PendingMarker == Row({"pending_marker"}, NO_DATE, NoneSeq)
ValidMarker == Row({"valid_marker"}, NO_DATE, NoneSeq)
\* The card header: "purchase date", "merchant name", "charged amount".
Header == Row({"purchase_date", "card_merchant", "charge_amount"}, NO_DATE, NoneSeq)
Purchase == Row({}, 1, <<"5", ".", "0", "0">>)
Refund == Row({}, 2, <<"-", "7", ".", "0", "0">>)
ZeroRow == Row({}, 1, <<"0", ".", "0", "0">>)
BadDateRow == Row({}, LAST_DAY + 1, <<"5", ".", "0", "0">>)
BadAmountRow == Row({}, 1, <<"5", "-">>)
Junk == Row({}, NO_DATE, <<"5", ".", "0", "0">>)

Rows == {PendingMarker, ValidMarker, Header, Purchase, Refund, ZeroRow, BadDateRow,
         BadAmountRow, Junk}

\* The sheet of tests/verify.py, and a sheet with a header, a pending marker
\* followed by 3 rows and a valid marker followed by 2 rows.
TestSheet == <<Junk, Header, Purchase, PendingMarker, Purchase, ValidMarker, Purchase>>
SectionsSheet == <<Header, PendingMarker, Purchase, Refund, Purchase, ValidMarker, Purchase, Refund>>
\* The same sections with the header that a statement repeats under each marker.
HeadedSheet == <<PendingMarker, Header, Purchase, Refund, Purchase, ValidMarker, Header, Purchase, Refund>>

Sheets == Seqs(Rows, MaxRows) \cup {TestSheet, SectionsSheet, HeadedSheet}

IsPendingMarker(row) == "pending_marker" \in row.words

IsValidMarker(row) == "valid_marker" \in row.words

\* A header row names the purchase date and the merchant.
IsHeader(row) == {"purchase_date", "card_merchant"} \subseteq row.words

\* re.match(r'\d{2}[./]\d{2}[./]\d{2,4}', date_val)
LooksLikeDate(date) == date # NO_DATE

\* parse_date: the date, or None (NO_DATE) when no format fits.
parse_date(date) == IF date \in 1..LAST_DAY THEN date ELSE NO_DATE

\* The sign of a card amount: a negative source amount is a refund.
final_amount(amount_val) == IF amount_val < 0 THEN Abs(amount_val) ELSE -1 * Abs(amount_val)

IsracardTransaction(row) ==
    [date |-> parse_date(row.date), amount |-> final_amount(clean_amount(row.amount)),
     category |-> "Uncategorized", currency |-> "ILS", source_file |-> "Isracard"]

\* The locals of the loop before the first row.
IsracardStart == [current_section |-> "SEARCH", col_indices |-> {}, transactions |-> <<>>]

\* One iteration of the loop over the rows: the locals after the row.
isracard_row(loc, row) ==
    IF IsPendingMarker(row)
    THEN [loc EXCEPT !.current_section = "PENDING", !.col_indices = {}]
    ELSE IF IsValidMarker(row)
    THEN [loc EXCEPT !.current_section = "VALID", !.col_indices = {}]
    ELSE IF IsHeader(row)
    THEN [loc EXCEPT !.col_indices = row.words]
    ELSE IF loc.current_section = "PENDING" THEN loc
    ELSE IF loc.col_indices = {} THEN loc
    ELSE IF ~LooksLikeDate(row.date) THEN loc
    ELSE IF clean_amount(row.amount) = 0 THEN loc
    ELSE IF parse_date(row.date) = NO_DATE THEN loc
    ELSE [loc EXCEPT !.transactions = Append(@, IsracardTransaction(row))]

InitIsracard ==
    /\ StoreIdle
    /\ HashIdle
    /\ FlowIdle
    /\ rows \in Sheets
    /\ idx = 1
    /\ current_section = IsracardStart.current_section
    /\ col_indices = IsracardStart.col_indices
    /\ emitted = IsracardStart.transactions

parse_isracard_row ==
    /\ idx \in 1..Len(rows)
    /\ idx' = idx + 1
    /\ \E loc \in {isracard_row([current_section |-> current_section,
                                 col_indices |-> col_indices,
                                 transactions |-> emitted], rows[idx])} :
        /\ current_section' = loc.current_section
        /\ col_indices' = loc.col_indices
        /\ emitted' = loc.transactions
    /\ UNCHANGED <<rows, StoreVarsOnly, HashVars, FlowVars>>

NextIsracard == parse_isracard_row

SpecIsracard == InitIsracard /\ [][NextIsracard]_vars

\* The loop has read every row.
EndOfSheet == idx = Len(rows) + 1

IsMarker(row) == IsPendingMarker(row) \/ IsValidMarker(row)

\* A data row: a valid date and a non-zero amount.
IsData(row) ==
    /\ ~IsMarker(row)
    /\ ~IsHeader(row)
    /\ row.date \in 1..LAST_DAY
    /\ clean_amount(row.amount) # 0

\* The marker that opened the section row i lies in, "none" before any marker.
RECURSIVE SectionOf(_, _)
SectionOf(sheet, i) ==
    IF i <= 1 THEN "none"
    ELSE IF IsPendingMarker(sheet[i - 1]) THEN "pending"
    ELSE IF IsValidMarker(sheet[i - 1]) THEN "valid"
    ELSE SectionOf(sheet, i - 1)

HeaderSeen(sheet, i) == \E j \in 1..(i - 1) : ~IsMarker(sheet[j]) /\ IsHeader(sheet[j])

\* The data rows that follow a valid-section marker, a header having been seen.
ToEmit(sheet) ==
    {i \in 1..Len(sheet) : IsData(sheet[i]) /\ HeaderSeen(sheet, i) /\ SectionOf(sheet, i) = "valid"}

\* The rows between a pending-section marker and the next valid-section marker.
Pending(sheet) == {i \in 1..Len(sheet) : SectionOf(sheet, i) = "pending"}

\* C15: at the end of the sheet every data row that follows a valid-section
\* marker, a header row having been seen, was emitted, no row lying between a
\* pending-section marker and the next valid-section marker was, and the sheet
\* with a pending marker followed by 3 rows and a valid marker followed by 2
\* rows gave exactly 2 transactions.
C15_ValidSectionRowsEmitted ==
    EndOfSheet =>
        /\ Len(emitted) >= Cardinality(ToEmit(rows))
        /\ Len(emitted) <= Cardinality({i \in 1..Len(rows) : IsData(rows[i])} \ Pending(rows))
        /\ rows = SectionsSheet => Len(emitted) = 2

\* The state of the per-document parse.
ParseState ==
    IF current_section = "PENDING" THEN "SUSPENDED"
    ELSE IF col_indices # {} THEN "ACTIVE"
    ELSE "SEARCHING_FOR_HEADER"

ParseStateNext ==
    IF current_section' = "PENDING" THEN "SUSPENDED"
    ELSE IF col_indices' # {} THEN "ACTIVE"
    ELSE "SEARCHING_FOR_HEADER"

\* C16: reading a row changes the parse state only from SEARCHING_FOR_HEADER to
\* ACTIVE on a header row, from ACTIVE to SUSPENDED on a pending-section marker
\* and from SUSPENDED to ACTIVE on a valid-section marker, and a row is emitted
\* only in the state ACTIVE.
C16_OnlyThreeTransitions ==
    [][ /\ ParseStateNext # ParseState =>
              \/ /\ ParseState = "SEARCHING_FOR_HEADER" /\ ParseStateNext = "ACTIVE"
                 /\ ~IsMarker(rows[idx]) /\ IsHeader(rows[idx])
              \/ /\ ParseState = "ACTIVE" /\ ParseStateNext = "SUSPENDED"
                 /\ IsPendingMarker(rows[idx])
              \/ /\ ParseState = "SUSPENDED" /\ ParseStateNext = "ACTIVE"
                 /\ IsValidMarker(rows[idx])
        /\ emitted' # emitted => ParseState = "ACTIVE"
      ]_vars

-----------------------------------------------------------------------------
(* The router parse_file and detect_and_parse (finance-app/src/parsers.py). *)
(* A file is the name it was uploaded under, the format of its bytes, what  *)
(* the first page of a PDF says, whether a pandas or pdfplumber call of the *)
(* adapter raises, and its rows. What a call gives back is an outcome:      *)
(* whether an exception left it, the adapters it dispatched to, and the     *)
(* transactions of the frame it returned.                                   *)

\* Most rows of a parsed file.
MaxFileRows == 3

\* The bank Excel header: "movement date", "description", "operation amount".
OneZeroHeader == Row({"movement_date", "description", "operation_amount"}, NO_DATE, NoneSeq)
\* The second card's header: "transaction date", "name of the merchant",
\* "last 4 digits", "charged amount".
MaxHeader ==
    Row({"transaction_date", "max_merchant", "last_4_digits", "charge_amount"}, NO_DATE, NoneSeq)
\* The header of a bank PDF table: "date", "debit", "credit".
PdfHeader == Row({"date", "debit", "credit"}, NO_DATE, NoneSeq)

Returned(dispatched, transactions) ==
    [raised |-> FALSE, dispatched |-> dispatched, transactions |-> transactions]

Raised(dispatched) == [raised |-> TRUE, dispatched |-> dispatched, transactions |-> <<>>]

\* try: ... except Exception: return pd.DataFrame() (or [])
except_Exception(outcome) ==
    IF outcome.raised THEN Returned(outcome.dispatched, <<>>) ELSE outcome

\* The rows of s that pass Test, each turned into a transaction by Tx.
Collect(s, Test(_), Tx(_)) ==
    LET kept == SelectSeq(s, Test)
    IN  [i \in 1..Len(kept) |-> Tx(kept[i])]

\* The rows after the first row that passes Test; none when no row does.
AfterFirst(s, Test(_)) ==
    IF \E i \in 1..Len(s) : Test(s[i])
    THEN SubSeq(s, 1 + (CHOOSE i \in 1..Len(s) : Test(s[i]) /\ \A j \in 1..(i - 1) : ~Test(s[j])), Len(s))
    ELSE <<>>

DateParses(row) == parse_date(row.date) # NO_DATE

\* _parse_one_zero_excel: read_excel takes the first row for the column
\* names and raises on a file that is not a workbook; a date, a description
\* and an amount column are required; a row is kept when its date parses.
OneZeroColumns(words) ==
    /\ words \cap {"movement_date", "purchase_date", "transaction_date", "date"} # {}
    /\ "description" \in words
    /\ words \cap {"operation_amount", "charge_amount"} # {}

OneZeroExcelTransaction(row) ==
    [date |-> parse_date(row.date), amount |-> clean_amount(row.amount),
     category |-> "Uncategorized", currency |-> "ILS", source_file |-> "OneZero_Excel"]

parse_one_zero_excel(file) ==
    except_Exception(
        IF file.format # "xlsx" \/ file.fails
        THEN Raised(<<"_parse_one_zero_excel">>)
        ELSE IF file.rows = <<>> \/ ~OneZeroColumns(Head(file.rows).words)
        THEN Returned(<<"_parse_one_zero_excel">>, <<>>)
        ELSE Returned(<<"_parse_one_zero_excel">>,
                      Collect(Tail(file.rows), DateParses, OneZeroExcelTransaction)))

\* _parse_max_finance and _parse_max_finance_sheet: a failing read ends in
\* the except of the sheet parser; the header is the first row naming the
\* merchant and the last 4 digits, and must name the transaction date and an
\* amount; a row below it is kept when its date parses. The rows drawn carry
\* no refund note.
IsMaxHeader(row) == {"max_merchant", "last_4_digits"} \subseteq row.words

MaxColumns(row) == {"transaction_date", "charge_amount"} \subseteq row.words

MaxTransaction(row) ==
    [date |-> parse_date(row.date), amount |-> -1 * Abs(clean_amount(row.amount)),
     category |-> "Uncategorized", currency |-> "ILS", source_file |-> "Max_Card"]

parse_max_finance_sheet(file) ==
    except_Exception(
        IF file.fails THEN Raised(<<"_parse_max_finance">>)
        ELSE IF ~\E i \in 1..Len(file.rows) : IsMaxHeader(file.rows[i])
        THEN Returned(<<"_parse_max_finance">>, <<>>)
        ELSE IF ~MaxColumns(CHOOSE row \in {file.rows[i] : i \in 1..Len(file.rows)} : IsMaxHeader(row))
        THEN Returned(<<"_parse_max_finance">>, <<>>)
        ELSE Returned(<<"_parse_max_finance">>,
                      Collect(AfterFirst(file.rows, IsMaxHeader), DateParses, MaxTransaction)))

parse_max_finance(file) == parse_max_finance_sheet(file)

\* _parse_isracard: the loop over the rows, with no try block of its own.
RECURSIVE isracard_rows(_, _)
isracard_rows(loc, s) ==
    IF s = <<>> THEN loc ELSE isracard_rows(isracard_row(loc, Head(s)), Tail(s))

parse_isracard(file) ==
    IF file.fails THEN Raised(<<"_parse_isracard">>)
    ELSE Returned(<<"_parse_isracard">>, isracard_rows(IsracardStart, file.rows).transactions)

\* _parse_one_zero_pdf: the rows of a table below its header row; without a
\* header naming the debit and the credit column no amount is found and every
\* row is left out. The rows drawn hold their amount in the debit column.
IsPdfHeader(row) ==
    /\ row.words \cap {"movement_date", "purchase_date", "transaction_date", "date"} # {}
    /\ row.words \cap {"debit", "credit", "balance"} # {}

PdfAmountFound(row) == ~one_zero_pdf_amount(row.amount, NoneSeq).skipped

PdfRowKept(row) == LooksLikeDate(row.date) /\ PdfAmountFound(row) /\ DateParses(row)

OneZeroPdfTransaction(row) ==
    [date |-> parse_date(row.date), amount |-> one_zero_pdf_amount(row.amount, NoneSeq).amount,
     category |-> "Uncategorized", currency |-> "ILS", source_file |-> "OneZero_Table"]

parse_one_zero_pdf(file) ==
    IF file.fails THEN Raised(<<"_parse_one_zero_pdf">>)
    ELSE IF ~\E i \in 1..Len(file.rows) :
                IsPdfHeader(file.rows[i]) /\ {"debit", "credit"} \subseteq file.rows[i].words
    THEN Returned(<<"_parse_one_zero_pdf">>, <<>>)
    ELSE Returned(<<"_parse_one_zero_pdf">>,
                  Collect(AfterFirst(file.rows, IsPdfHeader), PdfRowKept, OneZeroPdfTransaction))

\* _parse_isracard_pdf: a line is kept when it holds a date, an amount written
\* with two decimals (-?\d{1,3}(?:,\d{3})*\.\d{2}) above 0.01, and the date
\* parses.
RECURSIVE Grouped(_)
Grouped(s) ==
    IF Len(s) <= 3 THEN Len(s) >= 1 /\ \A i \in 1..Len(s) : s[i] \in Digits
    ELSE /\ s[Len(s) - 3] = ","
         /\ \A i \in (Len(s) - 2)..Len(s) : s[i] \in Digits
         /\ Grouped(SubSeq(s, 1, Len(s) - 4))

IsMoney(s) ==
    /\ s # NoneSeq
    /\ Len(Unsigned(s)) >= 4
    /\ Unsigned(s)[Len(Unsigned(s)) - 2] = "."
    /\ Unsigned(s)[Len(Unsigned(s)) - 1] \in Digits
    /\ Unsigned(s)[Len(Unsigned(s))] \in Digits
    /\ Grouped(SubSeq(Unsigned(s), 1, Len(Unsigned(s)) - 3))

PdfLineKept(row) ==
    /\ LooksLikeDate(row.date)
    /\ IsMoney(row.amount)
    /\ Abs(clean_amount(row.amount)) > 10
    /\ DateParses(row)

IsracardPdfTransaction(row) ==
    [date |-> parse_date(row.date), amount |-> final_amount(clean_amount(row.amount)),
     category |-> "Uncategorized", currency |-> "ILS", source_file |-> "Isracard_PDF_Fixed"]

parse_isracard_pdf(file) ==
    IF file.fails THEN Raised(<<"_parse_isracard_pdf">>)
    ELSE Returned(<<"_parse_isracard_pdf">>,
                  Collect(file.rows, PdfLineKept, IsracardPdfTransaction))

\* df_temp.to_string(): the words of all the rows.
content_str(file) == UNION {file.rows[i].words : i \in 1..Len(file.rows)}

\* The signatures tried with the second card before the bank.
detect_max_first(content) ==
    IF {"max_merchant", "last_4_digits"} \subseteq content THEN "_parse_max_finance"
    ELSE IF {"movement_date", "operation_amount"} \subseteq content THEN "_parse_one_zero_excel"
    ELSE IF content \cap {"purchase_date", "card_merchant"} # {} THEN "_parse_isracard"
    ELSE None

\* The signature checks of the Excel/CSV router, in their order.
detect(content) ==
    IF {"movement_date", "operation_amount"} \subseteq content THEN "_parse_one_zero_excel"
    ELSE IF {"max_merchant", "last_4_digits"} \subseteq content THEN "_parse_max_finance"
    ELSE IF content \cap {"purchase_date", "card_merchant"} # {} THEN "_parse_isracard"
    ELSE None

\* The PDF branch: pdfplumber opens the file, the first page chooses.
parse_pdf(file) ==
    except_Exception(
        IF file.format # "pdf" THEN Raised(<<>>)
        ELSE IF ~file.pages THEN Returned(<<>>, <<>>)
        ELSE IF file.isracard_text THEN parse_isracard_pdf(file)
        ELSE parse_one_zero_pdf(file))

\* The Excel/CSV branch: read_csv, else read_excel, then the signatures.
parse_sheet(file) ==
    except_Exception(
        IF file.format \notin {"csv", "xlsx"} THEN Raised(<<>>)
        ELSE IF detect(content_str(file)) = "_parse_one_zero_excel" THEN parse_one_zero_excel(file)
        ELSE IF detect(content_str(file)) = "_parse_max_finance" THEN parse_max_finance(file)
        ELSE IF detect(content_str(file)) = "_parse_isracard" THEN parse_isracard(file)
        ELSE Returned(<<>>, <<>>))

parse_file(file) ==
    except_Exception(IF file.name_pdf THEN parse_pdf(file) ELSE parse_sheet(file))

\* detect_and_parse: the records of the frame, [] when it is empty.
detect_and_parse(file) == parse_file(file)

Formats == {"csv", "xlsx", "pdf", "other"}

FileRows == {OneZeroHeader, MaxHeader, Header, PdfHeader, Purchase, BadDateRow, BadAmountRow}

\* Files under a PDF name, and files under another name.
Files ==
    [name_pdf : {TRUE}, format : Formats, pages : BOOLEAN, isracard_text : BOOLEAN,
     fails : BOOLEAN, rows : Seqs(FileRows, MaxFileRows)]
    \cup [name_pdf : {FALSE}, format : Formats, pages : {FALSE}, isracard_text : {FALSE},
          fails : BOOLEAN, rows : Seqs(FileRows, MaxFileRows)]

NoFile == [name_pdf |-> FALSE]

NoOutcome == [called |-> FALSE]

InitParse ==
    /\ StoreIdle
    /\ ParseIdle
    /\ FlowIdle
    /\ in1 \in Files
    /\ in2 = NoFile
    /\ h1 = NoOutcome
    /\ h2 = NoOutcome

ParseFile ==
    /\ "called" \in DOMAIN h1
    /\ h1' = detect_and_parse(in1)
    /\ UNCHANGED <<in1, in2, h2, StoreVars>>

NextParse == ParseFile

SpecParse == InitParse /\ [][NextParse]_vars

FileParsed == "raised" \in DOMAIN h1

\* The amount cell holds a number.
AmountParses(row) == row.amount # NoneSeq /\ IsFloat(KeepNumeric(row.amount))

GoodRows(file) == {i \in 1..Len(file.rows) : DateParses(file.rows[i]) /\ AmountParses(file.rows[i])}

\* No row names the columns the adapter of the file requires.
MissingColumns(file) ==
    IF file.name_pdf
    THEN /\ ~file.isracard_text
         /\ ~\E i \in 1..Len(file.rows) : {"date", "debit", "credit"} \subseteq file.rows[i].words
    ELSE \A i \in 1..Len(file.rows) :
            /\ ~OneZeroColumns(file.rows[i].words)
            /\ ~(IsMaxHeader(file.rows[i]) /\ MaxColumns(file.rows[i]))
            /\ ~IsHeader(file.rows[i])

\* The file cannot be read, the adapter raises, or the columns are missing.
DocumentFails(file) ==
    \/ file.name_pdf /\ (file.format # "pdf" \/ ~file.pages)
    \/ ~file.name_pdf /\ file.format \notin {"csv", "xlsx"}
    \/ file.fails
    \/ MissingColumns(file)

\* C18: detect_and_parse returns whatever the file is; a row whose date or
\* amount does not parse gives no transaction, so that there are at most as
\* many transactions as rows that parse; a file that cannot be read, whose
\* adapter raises or that lacks the required columns gives the empty result.
C18_NeverRaisesSkipsRows ==
    FileParsed =>
        /\ ~h1.raised
        /\ Len(h1.transactions) <= Cardinality(GoodRows(in1))
        /\ DocumentFails(in1) => h1.transactions = <<>>

-----------------------------------------------------------------------------
(* The signatures of the Excel/CSV router on sheets that hold any of them.  *)

\* The words the router looks for: two of the bank export, two of the second
\* card, two of the first card.
Signatures ==
    {"movement_date", "operation_amount", "max_merchant", "last_4_digits",
     "purchase_date", "card_merchant"}

\* The signature words in one row above a purchase, or spread over two rows.
SignatureSheets ==
    {<<Row(S, NO_DATE, NoneSeq), Purchase>> : S \in SUBSET Signatures}
    \cup {<<Row(S1, NO_DATE, NoneSeq), Row(S2, NO_DATE, NoneSeq)>> :
            S1 \in SUBSET {"movement_date", "max_merchant", "purchase_date"},
            S2 \in SUBSET {"operation_amount", "last_4_digits", "card_merchant"}}

DetectFiles ==
    [name_pdf : {FALSE}, format : {"csv", "xlsx"}, pages : {FALSE}, isracard_text : {FALSE},
     fails : {FALSE}, rows : SignatureSheets]

InitDetect ==
    /\ StoreIdle
    /\ ParseIdle
    /\ FlowIdle
    /\ in1 \in DetectFiles
    /\ in2 = NoFile
    /\ h1 = NoOutcome
    /\ h2 = NoOutcome

SpecDetect == InitDetect /\ [][NextParse]_vars

BankSignature(file) == {"movement_date", "operation_amount"} \subseteq content_str(file)

MaxSignature(file) == {"max_merchant", "last_4_digits"} \subseteq content_str(file)

CardSignature(file) == content_str(file) \cap {"purchase_date", "card_merchant"} # {}

\* C19: of a CSV/XLSX file the bank Excel adapter is dispatched when the bank
\* signature matches, else the second card's adapter when its signature
\* matches, else the first card's adapter when its signature matches,
\* whatever later signatures match too; one adapter and no more is
\* dispatched, and when no signature matches none is and the result is empty.
C19_FirstSignatureWins ==
    FileParsed =>
        /\ BankSignature(in1) => h1.dispatched = <<"_parse_one_zero_excel">>
        /\ ~BankSignature(in1) /\ MaxSignature(in1) => h1.dispatched = <<"_parse_max_finance">>
        /\ ~BankSignature(in1) /\ ~MaxSignature(in1) /\ CardSignature(in1) =>
               h1.dispatched = <<"_parse_isracard">>
        /\ ~BankSignature(in1) /\ ~MaxSignature(in1) /\ ~CardSignature(in1) =>
               h1.dispatched = <<>> /\ h1.transactions = <<>>
        /\ Len(h1.dispatched) <= 1

\* A sheet on which the three signatures match at once.
C19_Witness ==
    /\ FileParsed
    /\ content_str(in1) = Signatures
    /\ h1.dispatched = <<"_parse_one_zero_excel">>

-----------------------------------------------------------------------------
(* The store raising: a call of the Firestore client (get, set, update,    *)
(* delete, stream, commit) raises an exception. An operation whose store    *)
(* calls sit inside "try ... except Exception" returns its failure value;   *)
(* an exception raised outside a try block leaves the operation. The mock   *)
(* branches read a file, and a missing file is the mock_db = FALSE case of  *)
(* the actions above.                                                       *)

\* The operations whose Firestore calls are inside try ... except Exception.
CatchingOperations == {"update_transaction", "delete_transaction", "mark_as_not_duplicate"}

\* The operations that call Firestore with no try block around the call;
\* check_for_near_duplicates calls it through get_transactions_by_range.
UnguardedOperations ==
    {"add_transaction", "update_transaction_batch", "find_potential_duplicates",
     "check_for_near_duplicates"}

StoreOperations == CatchingOperations \cup UnguardedOperations

\* What the caller gets when the store raises during the operation.
OutcomeOfRaise(op, arg) ==
    IF op \in CatchingOperations
    THEN [op |-> op, arg |-> arg, store_raised |-> TRUE, propagated |-> FALSE, result |-> FALSE]
    ELSE [op |-> op, arg |-> arg, store_raised |-> TRUE, propagated |-> TRUE]

\* The operation op called with arg while the store raises: nothing is
\* written and no cache is cleared.
store_raises(op, arg) ==
    /\ ~MOCK_MODE
    /\ ImportIdle
    /\ last' = OutcomeOfRaise(op, arg)
    /\ UNCHANGED <<MOCK_MODE, mock_db, store, order, range_cache, doc, pos, pass, statuses,
                   HashVars, ParseVars, FlowVars>>

\* Each operation meeting the exception. Only a call that reaches the store
\* can meet it: check_for_near_duplicates of a transaction whose date does not
\* parse has returned [] before.
NextOutage ==
    \/ \E transaction \in DupTxs : add_transaction(transaction)
    \/ \E id \in DupIds : delete_transaction(id)
    \/ \E transaction \in DupTxs : store_raises("add_transaction", transaction)
    \/ \E id \in DupIds : store_raises("update_transaction", id)
    \/ \E id \in DupIds, updates \in DupUpdates :
           store_raises("update_transaction_batch",
                        <<[_id |-> id, category |-> updates.category]>>)
    \/ \E id \in DupIds : store_raises("delete_transaction", id)
    \/ \E tx_ids \in SUBSET DupIds : tx_ids # {} /\ store_raises("mark_as_not_duplicate", tx_ids)
    \/ store_raises("find_potential_duplicates", None)
    \/ \E transaction \in DupTxs :
           Parseable(transaction.date) /\ store_raises("check_for_near_duplicates", transaction)

SpecOutage == InitNear /\ [][NextOutage]_vars

StoreRaised == "store_raised" \in DOMAIN last

\* C17: when the store raises during add_transaction, update_transaction,
\* update_transaction_batch, delete_transaction, mark_as_not_duplicate,
\* find_potential_duplicates or check_for_near_duplicates, the exception does
\* not leave the operation, which returns a failure value.
C17_StoreExceptionsCaught ==
    StoreRaised /\ last.op \in StoreOperations =>
        /\ ~last.propagated
        /\ last.result = FALSE

-----------------------------------------------------------------------------
(* The category rules of the bank Excel adapter (finance-app/src/parsers.py, *)
(* _parse_one_zero_excel, step 4). A description is a sequence of words; the  *)
(* Hebrew keywords are named here in Latin letters. The rules search the      *)
(* keywords in the description followed by its character-reversed copy, so a  *)
(* word written backwards ("yralas", "xam") is found as the keyword.          *)

MaxWords == 2

\* desc_val[::-1] reverses the characters: the words come in the opposite
\* order and each word is spelled backwards.
Mirror(word) ==
    CASE word = "salary" -> "yralas"
      [] word = "yralas" -> "salary"
      [] word = "max" -> "xam"
      [] word = "xam" -> "max"
      [] word = "Isracard" -> "dracarsI"
      [] word = "maanak" -> "kanaam"
      [] word = "pensia" -> "aisnep"
      [] word = "ribit" -> "tibir"
      [] word = "kartis" -> "sitrak"
      [] word = "hapoalim" -> "milaopah"
      [] word = "bit" -> "tib"
      [] word = "Supermarket" -> "tekramrepuS"
      [] word = "OneZero" -> "oreZenO"
      [] word = "Transaction" -> "noitcasnarT"
      [] OTHER -> word

desc_reversed(desc) == [i \in 1..Len(desc) |-> Mirror(desc[Len(desc) + 1 - i])]

LowerWord(word) ==
    CASE word = "Isracard" -> "isracard"
      [] word = "dracarsI" -> "dracarsi"
      [] word = "Supermarket" -> "supermarket"
      [] word = "tekramrepuS" -> "tekramrepus"
      [] word = "OneZero" -> "onezero"
      [] word = "oreZenO" -> "orezeno"
      [] word = "Transaction" -> "transaction"
      [] word = "noitcasnarT" -> "noitcasnart"
      [] OTHER -> word

\* An empty description is replaced by "OneZero Transaction" (lines 530-531).
desc_val(desc) == IF desc = <<>> THEN <<"OneZero", "Transaction">> ELSE desc

search_text(desc) ==
    {LowerWord((desc_val(desc) \o desc_reversed(desc))[i]) :
        i \in 1..(Len(desc_val(desc)) + Len(desc))}

SalaryKeywords == {"mashkoret", "salary", "mamufat", "mufat"}
BenefitsKeywords == {"bituach_leumi", "miluim", "maanak"}
PensionKeywords == {"mishabat", "kupag", "pensia"}
InterestKeywords == {"ribit"}
RefundKeywords == {"kartis", "isracard_he", "0164", "4610"}
TransferKeywords == {"hapoalim", "mizrahi", "laheshbon", "withdrawal"}
PayoffKeywords ==
    {"isracard", "isracard_he", "max", "max_he", "cal", "cal_he", "visa", "visa_he",
     "amex", "0164", "1973"}

Names(text, keywords) == text \cap keywords # {}

\* The rules with the generic positive-amount fallback tried before the
\* keyword rules.
one_zero_excel_category_income_first(desc, amount_val) ==
    IF amount_val > 0 THEN "Income"
    ELSE IF Names(search_text(desc), SalaryKeywords) THEN "Salary"
    ELSE IF amount_val < 0 /\ Names(search_text(desc), PayoffKeywords)
         THEN "Credit Card Payoff"
    ELSE "Uncategorized"

one_zero_excel_category(desc, amount_val) ==
    LET text == search_text(desc) IN
    IF Names(text, SalaryKeywords) THEN "Salary"
    ELSE IF Names(text, BenefitsKeywords) THEN "Benefits"
    ELSE IF Names(text, PensionKeywords) THEN "Income"
    ELSE IF Names(text, InterestKeywords) THEN "Interest"
    ELSE IF amount_val > 0 THEN
        IF Names(text, RefundKeywords) THEN "Refund"
        ELSE IF Names(text, TransferKeywords) THEN "Transfer"
        ELSE "Income"
    ELSE IF amount_val < 0 /\ Names(text, PayoffKeywords) THEN "Credit Card Payoff"
    ELSE "Uncategorized"

Words ==
    {"salary", "yralas", "maanak", "pensia", "ribit", "Isracard", "kartis",
     "hapoalim", "bit", "max", "xam", "Supermarket"}

RowAmounts == {-5000, 0, 500}

NoCategory == [categorized |-> FALSE]

InitCategory ==
    /\ StoreIdle
    /\ ParseIdle
    /\ FlowIdle
    /\ in1 \in [description : Seqs(Words, MaxWords), amount : RowAmounts]
    /\ in2 = NoArgs
    /\ h1 = NoCategory
    /\ h2 = NoHash

Categorize ==
    /\ "categorized" \in DOMAIN h1
    /\ h1' = [category |-> one_zero_excel_category(in1.description, in1.amount)]
    /\ UNCHANGED <<in1, in2, h2, StoreVars>>

NextCategory == Categorize

SpecCategory == InitCategory /\ [][NextCategory]_vars

Categorized == "category" \in DOMAIN h1

\* The four keyword rules that are tried whatever the sign of the amount.
EarlierRule(text) ==
    Names(text, SalaryKeywords \cup BenefitsKeywords \cup PensionKeywords \cup InterestKeywords)

\* C21 as stated: the rules are tried in the order Salary, Benefits, pension,
\* Interest, positive amounts (Refund, Transfer, Income), negative amounts
\* (card issuer: Credit Card Payoff), else Uncategorized, the first match
\* winning; every negative row naming a card issuer is 'Credit Card Payoff' and
\* no negative row without a card-issuer keyword is.
C21_CategoryRules ==
    Categorized =>
        \E text \in {search_text(in1.description)} :
            /\ Names(text, SalaryKeywords) => h1.category = "Salary"
            /\ in1.amount > 0 /\ ~EarlierRule(text) =>
                   h1.category \in {"Refund", "Transfer", "Income"}
            /\ in1.amount < 0 /\ Names(text, PayoffKeywords) =>
                   h1.category = "Credit Card Payoff"
            /\ in1.amount < 0 /\ ~Names(text, PayoffKeywords) =>
                   h1.category # "Credit Card Payoff"

\* C21, amended: the first matching rule wins, so a negative row naming a card
\* issuer is 'Credit Card Payoff' only when none of the Salary, Benefits,
\* pension and Interest rules matched it; a salary keyword wins over every
\* later rule, and a negative row without a card-issuer keyword is never
\* 'Credit Card Payoff'.
C21_FirstMatchWins ==
    Categorized =>
        \E text \in {search_text(in1.description)} :
            /\ Names(text, SalaryKeywords) => h1.category = "Salary"
            /\ ~Names(text, SalaryKeywords) /\ Names(text, BenefitsKeywords) =>
                   h1.category = "Benefits"
            /\ ~Names(text, SalaryKeywords \cup BenefitsKeywords)
                 /\ Names(text, PensionKeywords) => h1.category = "Income"
            /\ ~Names(text, SalaryKeywords \cup BenefitsKeywords \cup PensionKeywords)
                 /\ Names(text, InterestKeywords) => h1.category = "Interest"
            /\ ~EarlierRule(text) /\ in1.amount > 0 =>
                   h1.category =
                       IF Names(text, RefundKeywords) THEN "Refund"
                       ELSE IF Names(text, TransferKeywords) THEN "Transfer"
                       ELSE "Income"
            /\ ~EarlierRule(text) /\ in1.amount < 0 /\ Names(text, PayoffKeywords) =>
                   h1.category = "Credit Card Payoff"
            /\ in1.amount < 0 /\ ~Names(text, PayoffKeywords) =>
                   h1.category # "Credit Card Payoff"
            /\ ~EarlierRule(text) /\ in1.amount = 0 => h1.category = "Uncategorized"

\* A negative row naming a card issuer next to the interest keyword is
\* 'Interest'.
C21_Witness ==
    /\ Categorized
    /\ in1 = [description |-> <<"ribit", "Isracard">>, amount |-> -5000]
    /\ h1.category = "Interest"

-----------------------------------------------------------------------------
(* The batched writes of the Firestore branch (finance-app/src/db.py,        *)
(* update_transaction_batch and delete_all_transactions). A batch is the     *)
(* sequence of the operations put in it, an operation being the position of  *)
(* its entry in updates_list or of its document in the stream; commits is    *)
(* the sequence of the batches committed, in order.                          *)

MaxOps == 801

\* The list lengths tried are those within MaxSlack of a multiple of the batch
\* size.
MaxSlack == 10

BATCH_SIZE == 400

NoBatch == [batch |-> <<>>, count |-> 0, updated_count |-> 0, commits |-> <<>>]

\* batch.commit() followed by db.batch().
Commit(s) == [s EXCEPT !.batch = <<>>, !.commits = Append(@, s.batch)]

\* The loop with the commit of the remainder left out.
update_batch_full_chunks_only(updates_list) ==
    [result |-> (Len(updates_list) \div BATCH_SIZE) * BATCH_SIZE,
     commits |-> [k \in 1..(Len(updates_list) \div BATCH_SIZE) |->
                     [j \in 1..BATCH_SIZE |-> (k - 1) * BATCH_SIZE + j]]]

\* One turn of the for loop of update_transaction_batch, on entry i (lines
\* 314-331).
UpdateStep(updates_list, i, s) ==
    IF updates_list[i]._id = None THEN s
    ELSE LET added == [s EXCEPT !.batch = Append(@, i), !.count = @ + 1] IN
         IF added.count >= BATCH_SIZE
         THEN [Commit(added) EXCEPT !.updated_count = @ + added.count, !.count = 0]
         ELSE added

\* The turns of the loop on the entries first..last, in order, from state s:
\* the turns of the first half, then those of the second half. (The test of
\* s.count, never negative, has the state of the first half computed before
\* the second half starts.)
RECURSIVE UpdateLoop(_, _, _, _)
UpdateLoop(updates_list, first, last_entry, s) ==
    IF s.count < 0 \/ first > last_entry THEN s
    ELSE IF first = last_entry THEN UpdateStep(updates_list, first, s)
    ELSE UpdateLoop(updates_list, (first + last_entry) \div 2 + 1, last_entry,
             UpdateLoop(updates_list, first, (first + last_entry) \div 2, s))

\* The Firestore branch of update_transaction_batch (lines 309-339): the loop,
\* the commit of the remainder and the returned updated_count.
update_batch(updates_list) ==
    LET s == UpdateLoop(updates_list, 1, Len(updates_list), NoBatch)
        done == IF s.count > 0
                THEN [Commit(s) EXCEPT !.updated_count = @ + s.count]
                ELSE s
    IN [result |-> done.updated_count, commits |-> done.commits]

\* One turn of the for loop of delete_all_transactions, on document i (lines
\* 623-629).
DeleteStep(i, s) ==
    LET added == [s EXCEPT !.batch = Append(@, i), !.count = @ + 1] IN
        IF added.count % BATCH_SIZE = 0 THEN Commit(added) ELSE added

\* The turns of the loop on the documents first..last, in order, from state s.
RECURSIVE DeleteLoop(_, _, _)
DeleteLoop(first, last_doc, s) ==
    IF s.count < 0 \/ first > last_doc THEN s
    ELSE IF first = last_doc THEN DeleteStep(first, s)
    ELSE DeleteLoop((first + last_doc) \div 2 + 1, last_doc,
             DeleteLoop(first, (first + last_doc) \div 2, s))

\* The Firestore branch of delete_all_transactions over a stream of docs
\* documents (lines 618-635): after the loop the batch in hand is committed
\* whenever a document was seen, even when the loop has just committed.
delete_all_batch(docs) ==
    LET s == DeleteLoop(1, docs, NoBatch)
        done == IF s.count > 0 THEN Commit(s) ELSE s
    IN [result |-> done.count, commits |-> done.commits]

WithId == [_id |-> "id", category |-> "Food"]

WithoutId == [_id |-> None, category |-> "Food"]

\* The positions of updates_list whose entry has no _id.
MissingIds == {{}, {1}, {400, 401}}

BatchLengths ==
    {n \in 0..MaxOps :
        n % BATCH_SIZE <= MaxSlack \/ n % BATCH_SIZE >= BATCH_SIZE - MaxSlack}

UpdatesList(n, missing) == [i \in 1..n |-> IF i \in missing THEN WithoutId ELSE WithId]

NoCommits == [committed |-> FALSE]

InitBatch ==
    /\ StoreIdle
    /\ ParseIdle
    /\ FlowIdle
    /\ \E n \in BatchLengths, missing \in MissingIds :
           in1 = [updates_list |-> UpdatesList(n, missing), docs |-> n]
    /\ in2 = NoArgs
    /\ h1 = NoCommits
    /\ h2 = NoCommits

CommitBatches ==
    /\ "committed" \in DOMAIN h1
    /\ h1' = update_batch(in1.updates_list)
    /\ h2' = delete_all_batch(in1.docs)
    /\ UNCHANGED <<in1, in2, StoreVars>>

NextBatch == CommitBatches

SpecBatch == InitBatch /\ [][NextBatch]_vars

Committed == "commits" \in DOMAIN h1

\* The operations of the committed batches, in the order of their commit.
RECURSIVE Flat(_, _)
Flat(commits, k) == IF k = 0 THEN <<>> ELSE Flat(commits, k - 1) \o commits[k]

\* The positions of the entries of updates_list that have an _id, in order.
Operations(updates_list) ==
    LET HasId(i) == updates_list[i]._id # None
    IN SelectSeq([i \in 1..Len(updates_list) |-> i], HasId)

-----------------------------------------------------------------------------
(* parse_date on the text of a date (finance-app/src/parsers.py, lines       *)
(* 69-90). A text is a sequence of characters. datetime.strptime is modelled *)
(* on texts made of digits and two separators: %d takes one or two digits    *)
(* worth 1..31, %m one or two digits worth 1..12, %Y four digits, %y two     *)
(* digits (69..99 in the 1900s, 00..68 in the 2000s), and the date must      *)
(* exist in the calendar. strftime('%Y') writes a year below 1000 with or    *)
(* without leading zeros according to the C library (without, on glibc).     *)

formats ==
    << <<"d", "/", "m", "/", "Y">>, <<"d", "-", "m", "-", "Y">>,
       <<"d", ".", "m", ".", "Y">>, <<"d", ".", "m", ".", "y">>,
       <<"d", "/", "m", "/", "y">>, <<"Y", "-", "m", "-", "d">> >>

IsDigits(s) == s # <<>> /\ \A i \in 1..Len(s) : s[i] \in Digits

\* Whether the field s is what the directive accepts.
Accepts(directive, s) ==
    /\ IsDigits(s)
    /\ CASE directive = "d" -> Len(s) <= 2 /\ Natural(s) \in 1..31
         [] directive = "m" -> Len(s) <= 2 /\ Natural(s) \in 1..12
         [] directive = "Y" -> Len(s) = 4
         [] directive = "y" -> Len(s) = 2

FieldValue(directive, s) ==
    IF directive = "y"
    THEN IF Natural(s) >= 69 THEN 1900 + Natural(s) ELSE 2000 + Natural(s)
    ELSE Natural(s)

IsLeap(year) == year % 4 = 0 /\ (year % 100 # 0 \/ year % 400 = 0)

DaysIn(year, month) ==
    IF month = 2 THEN IF IsLeap(year) THEN 29 ELSE 28
    ELSE IF month \in {4, 6, 9, 11} THEN 30 ELSE 31

\* datetime(year, month, day) exists.
IsDate(year, month, day) ==
    /\ year \in 1..9999
    /\ month \in 1..12
    /\ day \in 1..DaysIn(year, month)

ValueError == [ok |-> FALSE]

\* datetime.strptime(date_str, fmt): the date, or ValueError.
strptime(date_str, fmt) ==
    LET seps == {i \in 1..Len(date_str) : date_str[i] \notin Digits} IN
    IF Cardinality(seps) # 2 THEN ValueError
    ELSE LET i == Min(seps)
             j == CHOOSE k \in seps : k # i
             field == <<SubSeq(date_str, 1, i - 1), SubSeq(date_str, i + 1, j - 1),
                        SubSeq(date_str, j + 1, Len(date_str))>>
             value == [directive \in {"d", "m", "Y", "y"} |->
                          IF \E k \in 1..3 : fmt[2 * k - 1] = directive
                          THEN FieldValue(directive,
                                   field[CHOOSE k \in 1..3 : fmt[2 * k - 1] = directive])
                          ELSE 0]
             year == IF value["Y"] # 0 THEN value["Y"] ELSE value["y"]
         IN IF /\ date_str[i] = fmt[2]
               /\ date_str[j] = fmt[4]
               /\ \A k \in 1..3 : Accepts(fmt[2 * k - 1], field[k])
               /\ IsDate(IF \E k \in 1..3 : fmt[2 * k - 1] = "Y"
                         THEN Natural(field[CHOOSE k \in 1..3 : fmt[2 * k - 1] = "Y"])
                         ELSE value["y"],
                         value["m"], value["d"])
            THEN [ok |-> TRUE,
                  year |-> IF \E k \in 1..3 : fmt[2 * k - 1] = "Y"
                           THEN Natural(field[CHOOSE k \in 1..3 : fmt[2 * k - 1] = "Y"])
                           ELSE value["y"],
                  month |-> value["m"], day |-> value["d"]]
            ELSE ValueError

TwoDigits(n) == <<Digit(n \div 10), Digit(n % 10)>>

FourDigits(n) == TwoDigits(n \div 100) \o TwoDigits(n % 100)

\* date.strftime('%Y-%m-%d').
strftime(date, pads_year) ==
    (IF pads_year THEN FourDigits(date.year) ELSE Decimal(date.year))
        \o <<"-">> \o TwoDigits(date.month) \o <<"-">> \o TwoDigits(date.day)

\* The formats of the list that parse the text, by position.
Parsing(date_str) == {k \in 1..Len(formats) : strptime(date_str, formats[k]).ok}

\* parse_date(date_str): a value that is not a string is returned as it is;
\* of a string, the first format that parses it gives the result.
parse_date_value(date_str, pads_year) ==
    IF date_str.type # "str" THEN [returned |-> "argument", argument |-> date_str]
    ELSE IF Parsing(strip(date_str.text)) = {} THEN [returned |-> "None"]
    ELSE [returned |-> "str",
          text |-> strftime(strptime(strip(date_str.text),
                                     formats[Min(Parsing(strip(date_str.text)))]),
                            pads_year)]

DateFields ==
    {<<"3", "1">>, <<"1", "3">>, <<"1">>, <<"2", "9">>, <<"0", "2">>, <<"1", "2">>,
     <<"2", "0", "2", "4">>, <<"2", "0", "2", "3">>, <<"2", "4">>, <<"6", "9">>,
     <<"0", "0", "9", "9">>}

DateSeparators == {"/", "-", "."}

DateTexts ==
    {a \o <<s1>> \o b \o <<s2>> \o c :
        a \in DateFields, b \in DateFields, c \in DateFields,
        s1 \in DateSeparators, s2 \in DateSeparators}
      \cup {<<"I", "n", "v", "a", "l", "i", "d">>, <<>>,
            <<" ", "1", "/", "2", "/", "2", "0", "2", "4", " ">>}

\* What a caller can hand over: a text, an Excel serial number, None.
DateArguments ==
    {[type |-> "str", text |-> t] : t \in DateTexts}
        \cup {[type |-> "int", text |-> <<"4", "5", "0", "0", "0">>],
              [type |-> "NoneType", text |-> NoneSeq]}

NoDate == [parsed |-> FALSE]

InitDate ==
    /\ StoreIdle
    /\ ParseIdle
    /\ FlowIdle
    /\ in1 \in DateArguments
    /\ in2 = NoArgs
    /\ h1 = NoDate
    /\ h2 = NoHash

ParseDate ==
    /\ "parsed" \in DOMAIN h1
    /\ \E pads_year \in BOOLEAN : h1' = parse_date_value(in1, pads_year)
    /\ UNCHANGED <<in1, in2, h2, StoreVars>>

NextDate == ParseDate

SpecDate == InitDate /\ [][NextDate]_vars

DateParsed == "returned" \in DOMAIN h1

\* YYYY-MM-DD of a date of the calendar.
IsIso(text) ==
    /\ Len(text) = 10
    /\ text[5] = "-"
    /\ text[8] = "-"
    /\ IsDigits(SubSeq(text, 1, 4))
    /\ IsDigits(SubSeq(text, 6, 7))
    /\ IsDigits(SubSeq(text, 9, 10))
    /\ IsDate(Natural(SubSeq(text, 1, 4)), Natural(SubSeq(text, 6, 7)),
              Natural(SubSeq(text, 9, 10)))

\* C23: parse_date tries DD/MM/YYYY, DD-MM-YYYY, DD.MM.YYYY, DD.MM.YY, DD/MM/YY,
\* YYYY-MM-DD in that order, the first format that parses giving the result,
\* and whatever the input the result is None or the ISO text of a date of the
\* calendar: "31/12/2024" gives "2024-12-31", "13/13/2024" gives None.
C23_IsoOrNone ==
    DateParsed =>
        /\ h1.returned = "None" \/ (h1.returned = "str" /\ IsIso(h1.text))
        /\ in1.type = "str" =>
               \A k \in Parsing(strip(in1.text)) :
                   (\A j \in 1..(k - 1) : j \notin Parsing(strip(in1.text))) =>
                       /\ h1.returned = "str"
                       /\ \E pads_year \in BOOLEAN :
                              h1.text = strftime(strptime(strip(in1.text), formats[k]),
                                                 pads_year)
        /\ in1.type = "str" /\ in1.text = <<"3", "1", "/", "1", "2", "/", "2", "0", "2", "4">> =>
               h1.text = <<"2", "0", "2", "4", "-", "1", "2", "-", "3", "1">>
        /\ in1.type = "str" /\ in1.text = <<"1", "3", "/", "1", "3", "/", "2", "0", "2", "4">> =>
               h1.returned = "None"

-----------------------------------------------------------------------------
(* The upload flow (finance-app/src/ui/upload.py, render_upload): the parsed *)
(* transactions are checked against the store one by one, the preview shows  *)
(* the classes, and a button hands some of them to the import. A parsed      *)
(* transaction is the dict object of its position in the parsed list: the    *)
(* lists of the flow hold that position with the transaction.                *)

MaxUpload == 2

AUTO_SKIP_THRESHOLD == Double(228170137, 322122544)    \* 0.85 = 0x1.b333333333333p-1

Base == Parsed(1, -1000, NoneSeq)

\* The same identity with a bank category to fill in.
Enriching == [Base EXCEPT !.bank_category = "groceries"]

\* Scores 0.90 against Base (date, amount, description).
High == Parsed(1, -1000, <<"a">>)

\* Scores 0.80 against Base and High (date, amount within 5%, description).
Review == Parsed(1, -1020, NoneSeq)

Far == Parsed(8, -1000, NoneSeq)

UploadTxs == {Base, Enriching, High, Review, Far}

StoredTxs == {Base, High}

Uploads == UNION {[1..n -> UploadTxs] : n \in 0..MaxUpload}

\* _check_can_enrich(tx): some field of the three is set in tx and None in
\* the stored document (upload.py lines 349-383).
check_can_enrich(st, tx) ==
    /\ Exists(st, HashId(tx))
    /\ \E field \in {"bank_category", "transaction_type", "spender"} :
           Truthy(tx[field]) /\ Document(st, HashId(tx))[field] = None

\* The files are parsed; the duplicate check starts (lines 59-85).
parse_files(all_transactions) ==
    /\ ImportIdle
    /\ upload.upload_phase = "idle"
    /\ upload' = [NoUpload EXCEPT !.upload_phase = "checking",
                                  !.parsed_transactions = all_transactions, !.i = 1]
    /\ last' = [op |-> "render_upload", raised |-> FALSE]
    /\ UNCHANGED <<MOCK_MODE, mock_db, store, order, range_cache, doc, pos, pass, statuses,
                   HashVars, ParseVars, NotUpload>>

\* One turn of the loop over all_transactions (lines 86-109).
\* check_transaction_exists has no MOCK_MODE branch: get_db() returns None and
\* None.collection raises AttributeError, which nothing in render_upload
\* catches; the session state stays as it was before the files were dropped.
classify_next ==
    /\ upload.upload_phase = "checking"
    /\ upload.i <= Len(upload.parsed_transactions)
    /\ LET tx == upload.parsed_transactions[upload.i]
           start == tx.date - WINDOW_DAYS
           end == tx.date + WINDOW_DAYS
           key == <<start, end>>
           Classified(matches) ==
               IF matches # <<>>
               THEN [upload EXCEPT !.i = @ + 1,
                        !.near_duplicates =
                            Append(@, [i |-> upload.i, new_tx |-> tx, matches |-> matches])]
               ELSE [upload EXCEPT !.i = @ + 1,
                        !.truly_new = Append(@, [i |-> upload.i, tx |-> tx])]
       IN  IF MOCK_MODE
           THEN /\ upload' = NoUpload
                /\ last' = [op |-> "render_upload", raised |-> TRUE]
                /\ UNCHANGED range_cache
           ELSE IF Exists(store, HashId(tx))
           THEN /\ upload' = [upload EXCEPT !.i = @ + 1,
                                 !.exact_duplicates =
                                     Append(@, [i |-> upload.i, tx |-> tx,
                                                enrichable |-> check_can_enrich(store, tx)])]
                /\ UNCHANGED <<last, range_cache>>
           ELSE IF key \in DOMAIN range_cache
           THEN /\ upload' = Classified(NearMatches(tx, range_cache[key], UPLOAD_THRESHOLD))
                /\ UNCHANGED <<last, range_cache>>
           ELSE \E existing_txs \in RangeReads(MOCK_MODE, store, order, start, end) :
                    /\ upload' = Classified(NearMatches(tx, existing_txs, UPLOAD_THRESHOLD))
                    /\ range_cache' = (key :> existing_txs) @@ range_cache
                    /\ UNCHANGED last
    /\ UNCHANGED <<MOCK_MODE, mock_db, store, order, doc, pos, pass, statuses,
                   HashVars, ParseVars, NotUpload>>

\* The lists are saved and the preview is shown (lines 111-118).
show_preview ==
    /\ upload.upload_phase = "checking"
    /\ upload.i > Len(upload.parsed_transactions)
    /\ upload' = [upload EXCEPT !.upload_phase = "preview"]
    /\ UNCHANGED <<StoreVarsOnly, HashVars, ParseVars, NotUpload>>

\* The splits of the preview (lines 127-134).
enrichable(u) == SelectSeq(u.exact_duplicates, LAMBDA d : d.enrichable)
pure_dupes(u) == SelectSeq(u.exact_duplicates, LAMBDA d : ~d.enrichable)
auto_skip_near(u) ==
    SelectSeq(u.near_duplicates,
              LAMBDA d : FloatGeq(d.matches[1].confidence, AUTO_SKIP_THRESHOLD))
review_near(u) ==
    SelectSeq(u.near_duplicates,
              LAMBDA d : FloatLess(d.matches[1].confidence, AUTO_SKIP_THRESHOLD))

\* The for loop of _insert_transactions_direct (lines 324-337): the store
\* after add_transaction of each transaction in turn.
RECURSIVE InsertAll(_, _)
InsertAll(out, transactions) ==
    IF transactions = <<>> THEN out
    ELSE InsertAll(AddOutcome(MOCK_MODE, mock_db, out.store, out.order, out.cache,
                              Head(transactions)),
                   Tail(transactions))

\* The buttons "Process" (with_uncertain) and "Skip Uncertain" (lines 194-221).
process(with_uncertain) ==
    /\ upload.upload_phase = "preview"
    /\ \/ upload.truly_new # <<>>
       \/ enrichable(upload) # <<>>
       \/ review_near(upload) # <<>>
    /\ ~with_uncertain => review_near(upload) # <<>>
    /\ LET to_import ==
               [k \in 1..Len(upload.truly_new) |->
                   [i |-> upload.truly_new[k].i, tx |-> upload.truly_new[k].tx]]
               \o [k \in 1..Len(enrichable(upload)) |->
                   [i |-> enrichable(upload)[k].i, tx |-> enrichable(upload)[k].tx]]
               \o (IF with_uncertain
                   THEN [k \in 1..Len(review_near(upload)) |->
                           [i |-> review_near(upload)[k].i,
                            tx |-> review_near(upload)[k].new_tx]]
                   ELSE <<>>)
           out == InsertAll([status |-> "none", store |-> store, order |-> order,
                             cache |-> range_cache],
                            [k \in 1..Len(to_import) |-> to_import[k].tx])
       IN  /\ upload' = [upload EXCEPT !.upload_phase = "done", !.to_import = to_import]
           /\ store' = out.store
           /\ order' = out.order
           /\ range_cache' = out.cache
           /\ last' = [op |-> "_insert_transactions_direct", raised |-> FALSE]
    /\ UNCHANGED <<MOCK_MODE, mock_db, doc, pos, pass, statuses, HashVars, ParseVars, NotUpload>>

\* "Cancel Upload", "Go Back" and "Upload More Files".
reset_upload_state ==
    /\ upload.upload_phase \in {"preview", "done"}
    /\ upload' = NoUpload
    /\ UNCHANGED <<StoreVarsOnly, HashVars, ParseVars, NotUpload>>

\* An earlier import, before the files are dropped.
stored_before(transaction) ==
    /\ upload.upload_phase = "idle"
    /\ add_transaction(transaction)

NextUpload ==
    \/ \E transaction \in StoredTxs : stored_before(transaction)
    \/ \E all_transactions \in Uploads : parse_files(all_transactions)
    \/ classify_next
    \/ show_preview
    \/ \E with_uncertain \in BOOLEAN : process(with_uncertain)
    \/ reset_upload_state

SpecUpload == StoreInit /\ [][NextUpload]_vars

\* The positions held by a list of the flow.
Positions(list) == {list[k].i : k \in 1..Len(list)}

\* C24: every parsed transaction is put in exactly one of the classes exact
\* duplicate, near-duplicate and new, the near-duplicate check being made only
\* without an exact hit; the import gets only the new ones, the enrichable
\* exact duplicates and the near-duplicates of the review band (best match
\* from 0.75 to below 0.85), and never a non-enrichable exact duplicate or a
\* near-duplicate whose best match scores 0.85 or more.
C24_UploadClasses ==
    /\ last.op = "render_upload" => ~last.raised
    /\ upload.upload_phase \in {"preview", "done"} =>
           /\ \A k \in 1..Len(upload.parsed_transactions) :
                  Cardinality({list \in {"exact_duplicates", "near_duplicates", "truly_new"} :
                                  k \in Positions(upload[list])}) = 1
           /\ \A k \in 1..Len(upload.near_duplicates) :
                  FloatGeq(upload.near_duplicates[k].matches[1].confidence, UPLOAD_THRESHOLD)
    /\ upload.upload_phase = "preview" =>
           \A k \in 1..Len(upload.parsed_transactions) :
               k \in Positions(upload.exact_duplicates)
                   <=> Exists(store, HashId(upload.parsed_transactions[k]))
    /\ upload.upload_phase = "done" =>
           /\ Positions(upload.to_import) \subseteq
                  Positions(upload.truly_new) \cup Positions(enrichable(upload))
                      \cup Positions(review_near(upload))
           /\ Positions(upload.to_import) \cap
                  (Positions(pure_dupes(upload)) \cup Positions(auto_skip_near(upload))) = {}
           /\ \A k \in 1..Len(upload.to_import) :
                  upload.to_import[k].tx = upload.parsed_transactions[upload.to_import[k].i]

-----------------------------------------------------------------------------
(* Two calls of add_transaction at once (finance-app/src/db.py, lines        *)
(* 80-171): two sessions of the application importing in their own threads.  *)
(* A call reads (doc_ref.get(), or json.load of mock_db.json), then writes   *)
(* (doc_ref.set / doc_ref.update, or json.dump of the list it read) and      *)
(* returns; the other call may run between the two steps.                    *)

Callers == {1, 2}

\* The same identity from another file, with a bank category.
SameIdentity == [Base EXCEPT !.uploaded_from = "b.csv", !.bank_category = "groceries"]

CallTxs == {Base, SameIdentity, Far}

NotFound == [exists |-> FALSE]

\* The calls start on a store that holds none of the transactions.
InitCalls ==
    /\ MOCK_MODE \in BOOLEAN
    /\ mock_db = MOCK_MODE
    /\ store = {}
    /\ order = <<>>
    /\ range_cache = cleared_cache
    /\ last = [op |-> "none"]
    /\ ImportIdle
    /\ HashIdle
    /\ ParseIdle
    /\ upload = NoUpload
    /\ autopilot = NoAutopilot
    /\ \E transactions \in [Callers -> CallTxs] :
           calls = [of |-> [p \in Callers |->
                               [pc |-> "called", transaction |-> transactions[p],
                                doc |-> NotFound, data |-> {}, file |-> <<>>,
                                status |-> None]],
                    log |-> <<>>]

\* doc_ref.get() (line 127); in MOCK_MODE json.load (lines 95-98).
call_reads(p) ==
    /\ calls.of # <<>>
    /\ calls.of[p].pc = "called"
    /\ LET hash_id == HashId(calls.of[p].transaction) IN
       calls' = [calls EXCEPT
                    !.of[p].pc = "read",
                    !.of[p].doc = IF Exists(store, hash_id)
                                  THEN [exists |-> TRUE, data |-> Document(store, hash_id)]
                                  ELSE NotFound,
                    !.of[p].data = store,
                    !.of[p].file = order]
    /\ UNCHANGED <<StoreVarsOnly, HashVars, ParseVars, NotCalls>>

\* The rest of the call: the Firestore branch updates or sets the document
\* (lines 129-171); the mock branch changes the list it read and dumps it
\* (lines 100-120).
call_writes(p) ==
    /\ calls.of # <<>>
    /\ calls.of[p].pc = "read"
    /\ LET c == calls.of[p]
           hash_id == HashId(c.transaction)
           new == NewDocument(c.transaction, hash_id)
           Returns(status, kind) ==
               [calls EXCEPT !.of[p].pc = "returned", !.of[p].status = status,
                             !.log = IF kind = None THEN @
                                     ELSE Append(@, [caller |-> p, kind |-> kind,
                                                     hash_id |-> hash_id])]
       IN  IF MOCK_MODE
           THEN IF Exists(c.data, hash_id)
                THEN LET keys == mock_updates_of(Document(c.data, hash_id), c.transaction) IN
                     IF keys # {}
                     THEN /\ store' = WithUpdate(c.data, hash_id, Enrichment(c.transaction, keys))
                          /\ order' = c.file
                          /\ calls' = Returns("updated", "update")
                          /\ UNCHANGED range_cache
                     ELSE /\ calls' = Returns("skipped", None)
                          /\ UNCHANGED <<store, order, range_cache>>
                ELSE /\ store' = c.data \cup {new}
                     /\ order' = Append(c.file, hash_id)
                     /\ calls' = Returns("added", "set")
                     /\ UNCHANGED range_cache
           ELSE IF c.doc.exists
                THEN LET keys == updates_of(c.doc.data, c.transaction) IN
                     IF keys # {}
                     THEN /\ store' = WithUpdate(store, hash_id, Enrichment(c.transaction, keys))
                          /\ range_cache' = cleared_cache
                          /\ calls' = Returns("updated", "update")
                          /\ UNCHANGED order
                     ELSE /\ calls' = Returns("skipped", None)
                          /\ UNCHANGED <<store, order, range_cache>>
                ELSE /\ store' = {d \in store : d._id # hash_id} \cup {new}
                     /\ range_cache' = cleared_cache
                     /\ calls' = Returns("added", "set")
                     /\ UNCHANGED order
    /\ last' = [op |-> "add_transaction", arg |-> calls.of[p].transaction,
                result |-> calls'.of[p].status]
    /\ UNCHANGED <<MOCK_MODE, mock_db, doc, pos, pass, statuses, HashVars, ParseVars,
                   NotCalls>>

NextCalls == \E p \in Callers : call_reads(p) \/ call_writes(p)

SpecCalls == InitCalls /\ [][NextCalls]_vars

BothReturned == calls.of # <<>> /\ \A p \in Callers : calls.of[p].pc = "returned"

SameHash == HashId(calls.of[1].transaction) = HashId(calls.of[2].transaction)

\* C25: of two interleaved add_transaction calls for one identity hash on a
\* store without it, exactly one returns 'added', the record the first one
\* wrote is not replaced by a record of the second, and the store ends with
\* one record for the hash.
C25_OneAdded ==
    BothReturned /\ SameHash =>
        /\ Cardinality({p \in Callers : calls.of[p].status = "added"}) = 1
        /\ Cardinality({k \in 1..Len(calls.log) : calls.log[k].kind = "set"}) = 1
        /\ Cardinality({d \in store : d._id = HashId(calls.of[1].transaction)}) = 1
        /\ MOCK_MODE =>
               Cardinality({k \in 1..Len(order) :
                               order[k] = HashId(calls.of[1].transaction)}) = 1

-----------------------------------------------------------------------------
(* Cached reads after writes (finance-app/src/db.py): get_transactions_by_   *)
(* range is wrapped in st.cache_data(ttl=60) (lines 202-229) and the writes  *)
(* are expected to call _clear_transaction_cache (lines 75-78).              *)

\* get_transactions_by_range(start_date, end_date) through st.cache_data.
get_transactions_by_range(start_date, end_date) ==
    /\ ImportIdle
    /\ LET key == <<start_date, end_date>> IN
       IF key \in DOMAIN range_cache
       THEN /\ last' = [op |-> "get_transactions_by_range", arg |-> key,
                        result |-> range_cache[key]]
            /\ UNCHANGED range_cache
       ELSE \E existing_txs \in RangeReads(MOCK_MODE, store, order, start_date, end_date) :
                /\ last' = [op |-> "get_transactions_by_range", arg |-> key,
                            result |-> existing_txs]
                /\ range_cache' = (key :> existing_txs) @@ range_cache
    /\ UNCHANGED <<MOCK_MODE, mock_db, store, order, doc, pos, pass, statuses,
                   HashVars, ParseVars, FlowVars>>

\* update_transaction_batch(updates_list) for entries that all have an _id
\* (lines 292-339). The mock branch calls update_transaction on each entry and
\* counts the True results. The Firestore branch commits one batch of
\* update()s, which raises as a whole when a document is missing; the cache
\* is cleared when the count is positive.
update_transaction_batch(updates_list) ==
    /\ ImportIdle
    /\ LET ids == {updates_list[k]._id : k \in 1..Len(updates_list)}
           RECURSIVE Apply(_, _)
           Apply(st, k) ==
               IF k > Len(updates_list) THEN st
               ELSE Apply(WithUpdate(st, updates_list[k]._id,
                                     [f \in DOMAIN updates_list[k] \ {"_id"} |->
                                         updates_list[k][f]]),
                          k + 1)
       IN  IF MOCK_MODE
           THEN /\ store' = IF mock_db THEN Apply(store, 1) ELSE store
                /\ last' = [op |-> "update_transaction_batch", arg |-> updates_list,
                            raised |-> FALSE,
                            result |-> IF mock_db THEN Len(updates_list) ELSE 0]
                /\ UNCHANGED range_cache
           ELSE IF \E id \in ids : ~Exists(store, id)
           THEN /\ last' = [op |-> "update_transaction_batch", arg |-> updates_list,
                            raised |-> TRUE, result |-> 0]
                /\ UNCHANGED <<store, range_cache>>
           ELSE /\ store' = Apply(store, 1)
                /\ last' = [op |-> "update_transaction_batch", arg |-> updates_list,
                            raised |-> FALSE, result |-> Len(updates_list)]
                /\ range_cache' = IF Len(updates_list) > 0 THEN cleared_cache
                                  ELSE range_cache
    /\ UNCHANGED <<MOCK_MODE, mock_db, order, doc, pos, pass, statuses,
                   HashVars, ParseVars, FlowVars>>

CacheTxs == {Parsed(1, -1000, NoneSeq), Parsed(1, -1000, <<"a">>)}

CacheIds == IdsOf(CacheTxs)

CacheRanges == {<<1, 8>>}

NextCache ==
    \/ \E transaction \in CacheTxs : add_transaction(transaction)
    \/ \E id \in CacheIds, updates \in DupUpdates : update_transaction(id, updates)
    \/ \E id \in CacheIds, updates \in DupUpdates :
           update_transaction_batch(<<[_id |-> id, category |-> updates.category]>>)
    \/ \E id \in CacheIds : delete_transaction(id)
    \/ \E tx_ids \in SUBSET CacheIds : tx_ids # {} /\ mark_as_not_duplicate(tx_ids)
    \/ delete_all_transactions
    \/ \E range \in CacheRanges : get_transactions_by_range(range[1], range[2])
    \/ cache_expires

SpecCache == StoreInit /\ [][NextCache]_vars

\* C26: in both modes, a get_transactions_by_range that follows the writes of
\* add_transaction, update_transaction, update_transaction_batch,
\* delete_transaction, delete_all_transactions and mark_as_not_duplicate
\* returns the stored transactions of the range as the writes left them, not
\* a list cached before them.
C26_ReadsAreFresh ==
    last.op = "get_transactions_by_range" =>
        last.result \in RangeReads(MOCK_MODE, store, order, last.arg[1], last.arg[2])

-----------------------------------------------------------------------------
(* The groups of one scan, as the data editor reviews them                   *)
(* (finance-app/src/db.py, find_potential_duplicates, lines 416-437).        *)

\* The groups of the last scan that hold the document.
GroupsOf(d) == {n \in 1..Len(last.result) : InSeq(d, last.result[n].transactions)}

\* C27: whatever the store holds and whatever pairs are marked as not
\* duplicates, no stored transaction is in more than one of the groups
\* returned by one call of find_potential_duplicates.
C27_GroupsAreDisjoint ==
    last.op = "find_potential_duplicates" =>
        \A d \in store : Cardinality(GroupsOf(d)) <= 1


-----------------------------------------------------------------------------
(* Re-import after edits (finance-app/src/db.py, src/ai.py,                  *)
(* src/ui/data_editor.py): the data editor saves the edited cells of a row   *)
(* through update_transaction (data_editor.py lines 73-82 and 231-234), the  *)
(* AI clean-up saves category and description through                        *)
(* update_transaction_batch (ai.py lines 93-101 and 183-188), and the upload *)
(* imports the parsed rows through add_transaction.                          *)

\* A row as the parser returns it, with the spender it assigns.
ParsedBy(date, amount, spender, uploaded_from) ==
    [date |-> date, amount |-> amount, description |-> <<"a">>, ref_id |-> NoneSeq,
     category |-> None, source_file |-> "Isracard", spender |-> spender,
     bank_category |-> None, transaction_type |-> None,
     uploaded_from |-> uploaded_from]

\* Two rows, the first one parsed from either of two files.
EditTxs ==
    {ParsedBy(1, -1000, "Dmitry", "a.csv"), ParsedBy(1, -1000, "Dmitry", "b.csv"),
     ParsedBy(2, 1000, "Joint", "a.csv")}

EditIds == IdsOf(EditTxs)

\* The cells the editors let the user change: category and spender in the
\* review of the uncategorized rows, whose spender column is not required
\* and can be emptied (lines 50-70), and the description as well in the
\* monthly editor (lines 200-216).
EditUpdates ==
    {[category |-> "Other"], [spender |-> "Yaara"], [spender |-> None],
     [description |-> <<"b">>]}

\* What categorize_transactions returns for a row: '_id', 'category' and the
\* cleaned 'description'.
AiUpdates == {[category |-> "Food", description |-> <<"A">>]}

NextEdit ==
    \/ \E transaction \in EditTxs : add_transaction(transaction)
    \/ \E id \in EditIds, updates \in EditUpdates : update_transaction(id, updates)
    \/ \E id \in EditIds, updates \in AiUpdates :
           update_transaction_batch(<<[_id |-> id, category |-> updates.category,
                                       description |-> updates.description]>>)

SpecEdit == StoreInit /\ [][NextEdit]_vars

\* The record that was imported from the row: the editors leave date, amount
\* and ref_id alone, and the rows of EditTxs differ in them.
ImportedFrom(d, transaction) ==
    /\ d.date = transaction.date
    /\ d.amount = transaction.amount
    /\ d.ref_id = transaction.ref_id

\* C28: once a row is stored, add_transaction of the originally parsed row
\* returns 'skipped' or 'updated', never 'added', whatever update_transaction
\* and update_transaction_batch have done to the description, the category
\* and the spender of its record, and it leaves these three fields of the
\* record as the edits left them.
C28_ReimportKeepsEdits ==
    [][\A d \in store :
           last'.op = "add_transaction" /\ ImportedFrom(d, last'.arg) =>
               /\ last'.result \in {"skipped", "updated"}
               /\ \E e \in store' :
                      /\ e._id = d._id
                      /\ e.description = d.description
                      /\ e.category = d.category
                      /\ e.spender = d.spender]_vars

\* C28, amended: once a row is stored, add_transaction of the originally
\* parsed row returns 'skipped' or 'updated', never 'added', and writes no
\* second record, whatever the edits have done to the description, the
\* category and the spender of its record; it leaves the description and the
\* category as the edits left them, and the spender as well unless the edit
\* emptied it (None), in which case the enrichment may fill it again.
C28_ReimportKeepsSetFields ==
    [][\A d \in store :
           last'.op = "add_transaction" /\ ImportedFrom(d, last'.arg) =>
               /\ last'.result \in {"skipped", "updated"}
               /\ Cardinality(store') = Cardinality(store)
               /\ \E e \in store' :
                      /\ e._id = d._id
                      /\ e.description = d.description
                      /\ e.category = d.category
                      /\ d.spender # None => e.spender = d.spender]_vars

\* A row is imported again after the editor and the AI clean-up have changed
\* the description, the category and the spender of its record.
C28_Witness ==
    /\ last.op = "add_transaction"
    /\ last.result \in {"skipped", "updated"}
    /\ \E d \in store :
           /\ d._id = HashId(last.arg)
           /\ d.description = <<"A">>
           /\ d.description # last.arg.description
           /\ d.category = "Food"
           /\ d.spender = "Yaara"
           /\ last.arg.spender = "Dmitry"


-----------------------------------------------------------------------------
(* calculate_duplicate_confidence on the two orders of a pair                *)
(* (finance-app/src/db.py lines 484-531 and 534-561): amounts that are zero, *)
(* equal in absolute value, and 4.8% of the larger one apart                 *)

SymAmounts == {0, 952, -1000, 1000}

SymTxs ==
    [date : {1, 2}, amount : SymAmounts,
     description : {<<"a", "b">>, <<"a", "b", "c">>},
     ref_id : {NoneSeq}, category : {"Food", "Credit Card Payoff"},
     source_file : {"OneZero_Excel", "OneZero_Table", "Isracard"},
     spender : {None, "Dmitry"}, bank_category : {None},
     transaction_type : {None}, uploaded_from : {"a.csv"}]

InitSym ==
    /\ StoreIdle
    /\ ParseIdle
    /\ FlowIdle
    /\ in1 \in SymTxs
    /\ in2 \in {tx \in SymTxs : tx.date = 1}
    /\ h1 = NoScore
    /\ h2 = NoScore

SpecSym == InitSym /\ [][NextConf]_vars

\* C29: calculate_duplicate_confidence(tx1, tx2) and
\* calculate_duplicate_confidence(tx2, tx1) return the same score, also when
\* the amounts are close to 5% apart or one of them is zero.
C29_SameScoreBothWays ==
    Scored => h1.confidence = h2.confidence

\* The cross-source bonus is the same in both orders.
OverlapBothWays ==
    is_bank_cc_overlap(in1, in2) = is_bank_cc_overlap(in2, in1)

\* The two orders differ only where the amounts differ by less than 5% of
\* one and not of the other.
SameScoreUnlessNearAmount ==
    Scored /\ h1.confidence # h2.confidence =>
        LET amt1 == Abs(in1.amount)
            amt2 == Abs(in2.amount)
        IN  /\ amt1 # amt2
            /\ (100 * Abs(amt1 - amt2) < 5 * amt1) # (100 * Abs(amt1 - amt2) < 5 * amt2)


-----------------------------------------------------------------------------
(* The AI autopilot (finance-app/src/ui/data_editor.py lines 138-170,        *)
(* finance-app/src/ai.py lines 13-190, finance-app/src/db.py lines 271-290   *)
(* and 639-664): the loop calls enrich_uncategorized_data until nothing is   *)
(* pending, a batch saves nothing, or an error comes back.                   *)

\* Bound of the model on processed_total. The counter feeds the progress
\* display only and never the loop test; it is counted up to the bound and
\* held there.
MaxProcessed == 4

\* enrich_uncategorized_data asks for get_uncategorized_transactions(limit=50).
FETCH_LIMIT == 50

\* get_uncategorized_count(): 0 when mock_db.json cannot be read.
get_uncategorized_count(mock, file, st) ==
    IF mock /\ ~file THEN 0
    ELSE Cardinality({d \in st : d.category = "Uncategorized"})

\* The first n elements of a list.
Prefix(list, n) == SubSeq(list, 1, IF n < Len(list) THEN n ELSE Len(list))

\* get_uncategorized_transactions(limit), as the sets of documents it can
\* return: the first ones in file order from mock_db.json, any limit of the
\* matching documents from the Firestore query, which has no order_by.
get_uncategorized_transactions(mock, file, st, ord, limit) ==
    LET pending == {d \in st : d.category = "Uncategorized"}
    IN  IF mock /\ ~file THEN {{}}
        ELSE IF mock
        THEN LET ids == Prefix(SelectSeq(ord, LAMBDA id : Document(st, id) \in pending),
                               limit)
             IN  {{Document(st, ids[k]) : k \in 1..Len(ids)}}
        ELSE {txs \in SUBSET pending :
                 Cardinality(txs) = IF Cardinality(pending) < limit
                                    THEN Cardinality(pending) ELSE limit}

\* The categories the model lets the AI answer. An item without 'category'
\* is read as 'Uncategorized' (ai.py line 98).
AiCategories == {"Food", "Uncategorized"}

\* What categorize_transactions can return for the transactions it is given:
\* an error with no results, or a result for each item of the JSON array
\* the AI wrote, here for any of the given transactions, with the category
\* it answered and the description cleaned or not.
categorize_transactions(transactions) ==
    {[error |-> TRUE, results |-> <<>>]}
    \cup
    {[error |-> FALSE, results |-> results] :
        results \in UNION {[answered -> [category : AiCategories, clean : BOOLEAN]] :
                              answered \in SUBSET {t._id : t \in transactions}}}

\* The store after update_transaction_batch(updated_data), every id of
\* which is stored.
AfterAiUpdates(st, results) ==
    {IF d._id \in DOMAIN results
     THEN Updated(d, [category |-> results[d._id].category,
                      description |-> IF results[d._id].clean THEN <<"A">>
                                      ELSE d.description])
     ELSE d : d \in st}

\* enrich_uncategorized_data(): (count, error) and the store it leaves. The
\* key is there or not; no fetched transaction, an AI error and an empty
\* result list each come back as count 0 with an error message.
enrich_uncategorized_data(mock, file, st, ord) ==
    {[count |-> 0, error |-> "Missing GEMINI_API_KEY", store |-> st]}
    \cup
    UNION {IF raw_txs = {}
           THEN {[count |-> 0, error |-> "No uncategorized transactions found.",
                  store |-> st]}
           ELSE {IF answer.error
                 THEN [count |-> 0, error |-> "AI Error", store |-> st]
                 ELSE IF DOMAIN answer.results = {}
                 THEN [count |-> 0, error |-> "No data updated.", store |-> st]
                 ELSE [count |-> Cardinality(DOMAIN answer.results), error |-> None,
                       store |-> AfterAiUpdates(st, answer.results)] :
                    answer \in categorize_transactions(raw_txs)} :
              raw_txs \in get_uncategorized_transactions(mock, file, st, ord, FETCH_LIMIT)}

\* The RUN AUTOPILOT button, shown when total_uncategorized is not 0
\* (data_editor.py lines 104-145).
run_autopilot ==
    /\ ImportIdle
    /\ autopilot.phase = "idle"
    /\ \E total_uncategorized \in {get_uncategorized_count(MOCK_MODE, mock_db, store)} :
           /\ total_uncategorized # 0
           /\ autopilot' = [phase |-> "loop", total_uncategorized |-> total_uncategorized,
                            current_pending |-> total_uncategorized,
                            processed_total |-> 0, error |-> None]
    /\ UNCHANGED <<StoreVarsOnly, HashVars, ParseVars, NotAutopilot>>

\* The loop test holds: `while current_pending > 0` enters the body
\* (line 146).
autopilot_continues ==
    /\ ImportIdle
    /\ autopilot.phase = "loop"
    /\ autopilot.current_pending > 0
    /\ autopilot' = [autopilot EXCEPT !.phase = "body"]
    /\ UNCHANGED <<StoreVarsOnly, HashVars, ParseVars, NotAutopilot>>

\* One pass of the body of the loop (lines 147-164), back to the loop test
\* or out of the loop by break.
autopilot_batch ==
    /\ ImportIdle
    /\ autopilot.phase = "body"
    /\ \E out \in enrich_uncategorized_data(MOCK_MODE, mock_db, store, order) :
           /\ store' = out.store
           /\ range_cache' = IF out.count > 0 /\ ~MOCK_MODE THEN cleared_cache
                             ELSE range_cache
           /\ autopilot' =
                  IF out.error # None
                  THEN [autopilot EXCEPT !.phase = "done", !.error = out.error]
                  ELSE IF out.count = 0
                  THEN [autopilot EXCEPT !.phase = "done"]
                  ELSE [autopilot EXCEPT
                           !.phase = "loop",
                           !.processed_total =
                               IF @ + out.count > MaxProcessed THEN MaxProcessed
                               ELSE @ + out.count,
                           !.current_pending =
                               get_uncategorized_count(MOCK_MODE, mock_db, out.store)]
    /\ UNCHANGED <<MOCK_MODE, mock_db, order, last, doc, pos, pass, statuses,
                   HashVars, ParseVars, NotAutopilot>>

\* The loop test fails: nothing is pending (lines 146 and 166-170).
autopilot_leaves ==
    /\ ImportIdle
    /\ autopilot.phase = "loop"
    /\ autopilot.current_pending = 0
    /\ autopilot' = [autopilot EXCEPT !.phase = "done"]
    /\ UNCHANGED <<StoreVarsOnly, HashVars, ParseVars, NotAutopilot>>

\* The stored transactions the autopilot starts from: imported rows, without
\* a category unless the parser assigned one.
AutoTxs ==
    {ParsedBy(1, -1000, "Dmitry", "a.csv"), ParsedBy(2, 1000, "Joint", "a.csv"),
     Parsed(1, -1020, NoneSeq)}

InitAuto ==
    /\ MOCK_MODE \in BOOLEAN
    /\ mock_db = MOCK_MODE
    /\ \E txs \in SUBSET AutoTxs :
           /\ store = {NewDocument(tx, HashId(tx)) : tx \in txs}
           /\ order \in (IF MOCK_MODE THEN Listings(IdsOf(txs)) ELSE {<<>>})
    /\ range_cache = cleared_cache
    /\ last = [op |-> "none"]
    /\ ImportIdle
    /\ HashIdle
    /\ ParseIdle
    /\ FlowIdle

NextAuto == run_autopilot \/ autopilot_continues \/ autopilot_batch \/ autopilot_leaves

\* The loop runs in one script run: a step that can be taken is taken.
SpecAuto ==
    /\ InitAuto
    /\ [][NextAuto]_vars
    /\ WF_vars(autopilot_continues)
    /\ WF_vars(autopilot_batch)
    /\ WF_vars(autopilot_leaves)

\* C30: the autopilot loop terminates: from any number of uncategorized
\* transactions, the batches of enrich_uncategorized_data eventually leave
\* the loop, also when the AI answers 'Uncategorized' or omits the category.
C30_LoopTerminates ==
    (autopilot.phase \in {"loop", "body"}) ~> (autopilot.phase = "done")

\* current_pending is the count of the store whenever the loop tests it.
PendingIsCount ==
    autopilot.phase = "loop" =>
        autopilot.current_pending = get_uncategorized_count(MOCK_MODE, mock_db, store)

====
